---------------------------- MODULE Spec2Model ----------------------------
(***************************************************************************)
(* Model of the crawler of src/scraper.py (QuadraticLabsScraper) and of    *)
(* its URL canonicalizer.                                                  *)
(*                                                                         *)
(* A URL is a sequence of tokens: the first token is the scheme with its   *)
(* colon ("http:", "mailto:"), every other token is one character.  So     *)
(* <<"http:", "/", "/", "h", "/", "a">> is the string "http://h/a".        *)
(***************************************************************************)
EXTENDS Integers, Sequences, FiniteSets, TLC

(***************************************************************************)
(* Bounds of the model.                                                    *)
(***************************************************************************)
MaxLinks == 2        \* links (<a href>) on one fetched page
MaxPagesBound == 4   \* largest max_pages argument of scrape
MaxPath == 2         \* letters/slashes of a generated path after its "/"
MaxQuery == 2        \* characters of a generated query string

(***************************************************************************)
(* Program constants.                                                      *)
(***************************************************************************)
MAX_RETRIES == 3

None == << >>        \* Python None (and the empty string): both are falsy

(***************************************************************************)
(* String helpers (Python str methods used by the code).                   *)
(***************************************************************************)
SetMax(S) == CHOOSE m \in S : \A x \in S : x <= m
SetMin(S) == CHOOSE m \in S : \A x \in S : m <= x

\* s.rstrip(c): drops every trailing occurrence of the character c
rstrip(s, c) ==
    LET keep == {i \in 1..Len(s) : s[i] # c}
    IN  IF keep = {} THEN << >> ELSE SubSeq(s, 1, SetMax(keep))

\* index of the first character of s that belongs to C, Len(s)+1 if none
FirstOf(s, C) ==
    LET hit == {i \in 1..Len(s) : s[i] \in C}
    IN  IF hit = {} THEN Len(s) + 1 ELSE SetMin(hit)

\* urllib.parse.urlparse: scheme, then "//" netloc, then fragment is split
\* at the first "#", the query at the first "?", the remainder is the path
urlparse(u) ==
    LET rest    == Tail(u)
        hasAuth == Len(rest) >= 2 /\ rest[1] = "/" /\ rest[2] = "/"
        afterSl == IF hasAuth THEN SubSeq(rest, 3, Len(rest)) ELSE rest
        nEnd    == FirstOf(afterSl, {"/", "?", "#"})
        netloc  == IF hasAuth THEN SubSeq(afterSl, 1, nEnd - 1) ELSE << >>
        url1    == IF hasAuth THEN SubSeq(afterSl, nEnd, Len(afterSl)) ELSE rest
        fPos    == FirstOf(url1, {"#"})
        url2    == SubSeq(url1, 1, fPos - 1)
        frag    == SubSeq(url1, fPos + 1, Len(url1))
        qPos    == FirstOf(url2, {"?"})
    IN  [scheme   |-> Head(u),
         netloc   |-> netloc,
         path     |-> SubSeq(url2, 1, qPos - 1),
         query    |-> SubSeq(url2, qPos + 1, Len(url2)),
         fragment |-> frag]

\* QuadraticLabsScraper.normalize_url
normalize_url(url) ==
    LET parsed     == urlparse(url)
        normalized == <<parsed.scheme, "/", "/">> \o parsed.netloc \o parsed.path
        withQuery  == IF parsed.query # << >>
                      THEN normalized \o <<"?">> \o parsed.query
                      ELSE normalized
    IN  rstrip(withQuery, "/")

\* QuadraticLabsScraper.is_valid_url
is_valid_url(url, dom) ==
    urlparse(url).netloc = dom \/ urlparse(url).netloc = << >>

(***************************************************************************)
(* sorted(): Python compares strings by code point.  A scheme token only   *)
(* occurs first in a URL and the two schemes differ in their first letter, *)
(* so the code point of that letter orders them.                           *)
(***************************************************************************)
Ord(tok) ==
    CASE tok = "#" -> 35
      [] tok = "/" -> 47
      [] tok = "?" -> 63
      [] tok = "a" -> 97
      [] tok = "h" -> 104
      [] tok = "http:" -> 104
      [] tok = "mailto:" -> 109
      [] tok = "x" -> 120

StrLess(s, t) ==
    \/ Len(s) < Len(t) /\ SubSeq(t, 1, Len(s)) = s
    \/ \E i \in 1..Len(s) :
          /\ i <= Len(t)
          /\ SubSeq(s, 1, i - 1) = SubSeq(t, 1, i - 1)
          /\ Ord(s[i]) < Ord(t[i])

RECURSIVE sorted(_)
sorted(S) ==
    IF S = {} THEN << >>
    ELSE LET m == CHOOSE x \in S : \A y \in S \ {x} : StrLess(x, y)
         IN  <<m>> \o sorted(S \ {m})

Range(s) == {s[i] : i \in DOMAIN s}

\* every order in which a for loop can iterate over the Python set S
Orders(S) ==
    {o \in [1..Cardinality(S) -> S] : \A i, j \in 1..Cardinality(S) : o[i] = o[j] => i = j}

(***************************************************************************)
(* The pages of the site.  Hrefs are the values absolute_url can take      *)
(* (scraper.py line 71, after urljoin) for the anchors of a fetched page.  *)
(***************************************************************************)
Http == <<"http:", "/", "/">>
SeedPlain == Http \o <<"h">>                      \* "http://h"
SeedSlash == Http \o <<"h", "/">>                 \* "http://h/"
HrefA == Http \o <<"h", "/", "a">>                \* "http://h/a"
HrefASlash == Http \o <<"h", "/", "a", "/">>      \* "http://h/a/"
HrefForeign == Http \o <<"x", "/", "a">>          \* "http://x/a"
HrefMail == <<"mailto:", "a">>                    \* "mailto:a"

Seeds == {SeedPlain, SeedSlash}
Hrefs == {SeedSlash, HrefA, HrefASlash, HrefForeign, HrefMail}
PageLinks == {raw \in SUBSET Hrefs : Cardinality(raw) <= MaxLinks}

(***************************************************************************)
(* State.                                                                  *)
(***************************************************************************)
VARIABLES
    base_url,       \* self.base_url
    domain,         \* self.domain
    visited_urls,   \* self.visited_urls
    found_urls,     \* self.found_urls
    url_hierarchy,  \* self.url_hierarchy: url -> [parent, children, depth]
    url_depth,      \* self.url_depth
    to_visit,       \* the queue of scrape: entries [url, parent, depth]
    max_pages,      \* the argument of scrape
    pc,             \* "constructed", "loop" (the while of scrape), "done"
    result,         \* the list scrape returns
    fetch_log,      \* the arguments of get_links_from_page, in call order
    get_count,      \* url -> number of session.get calls made for it
    pages,          \* url -> links returned by its successful fetch
    failed,         \* urls whose fetch raised a RequestException
    n_pc,           \* canonicalizer runs: "input", "once", "twice"
    n_url,          \* a URL given to normalize_url
    n_alt,          \* the same URL with another fragment / trailing slash
    n_key,          \* normalize_url(n_url)
    n_altkey,       \* normalize_url(n_alt)
    n_key2          \* normalize_url(n_key)

crawlVars == <<base_url, domain, visited_urls, found_urls, url_hierarchy,
               url_depth, to_visit, max_pages, pc, result, fetch_log,
               get_count, pages, failed>>
normVars == <<n_pc, n_url, n_alt, n_key, n_altkey, n_key2>>

\* AnnuaireScraper (src/aj_scraper/scraper_annuaire.py) and phase 1 of the
\* pipeline (src/aj_scraper/main.py)
VARIABLES
    a_pc,            \* "idle", "get" (inside _get_page_with_requests),
                     \* "returned" (scrape_all_pages returned), "saved", "exit"
    a_url,           \* page being fetched: 0 is ANNUAIRE_URL, i the i-th
                     \* pagination link
    a_tries,         \* outcomes of the attempts of the current call
    a_sleeps,        \* the time.sleep arguments of the current call
    a_calls,         \* finished calls of _get_page_with_requests, in order
    a_links,         \* len(pagination_links)
    administrateurs, \* self.administrateurs
    a_ret            \* the list scrape_all_pages returned

annuaireVars == <<a_pc, a_url, a_tries, a_sleeps, a_calls, a_links,
                  administrateurs, a_ret>>

\* AnnonceFilter (src/aj_scraper/filters.py)
VARIABLES
    f_pc,            \* "idle", "input" (a filter and a list exist), "done"
    f_departments,   \* self.target_departments
    f_annonces,      \* the list given to the filter
    f_op,            \* the method called
    f_args,          \* its arguments
    f_out,           \* the list it returned
    f_verdicts       \* apply_all_filters: for every position of the input
                     \* and every stage, TRUE when the stage is not run or
                     \* keeps the record

filterVars == <<f_pc, f_departments, f_annonces, f_op, f_args, f_out,
                f_verdicts>>

\* AnnonceScraper (src/aj_scraper/scraper_annonces.py)
VARIABLES
    e_pc,            \* "idle", "page" (a page is about to be extracted), "done"
    e_tables,        \* the <table> elements of the page: lists of <tr>
    e_blocks,        \* its div / article / li elements with a listing class
    e_mode,          \* how the page was extracted
    e_out            \* the list extract_annonces_from_page returned

extractVars == <<e_pc, e_tables, e_blocks, e_mode, e_out>>

\* SiteAnalyzer (src/aj_scraper/scraper_sites.py)
VARIABLES
    s_pc,            \* "idle", "batch" (analyze_multiple_sites between two
                     \* sites), "crawl" (inside _crawl_site), "done",
                     \* "raised" (an exception left analyze_multiple_sites)
    s_max,           \* self.max_pages_per_site
    s_sites,         \* the sites given to analyze_multiple_sites
    s_results,       \* results
    s_gets,          \* the URLs given to session.get for the current site
    s_scans,         \* the link strategies run for the current site
    s_visited,       \* visited of _crawl_site
    s_to_visit,      \* to_visit of _crawl_site
    s_found          \* annonce_pages of _crawl_site

siteVars == <<s_pc, s_max, s_sites, s_results, s_gets, s_scans, s_visited,
              s_to_visit, s_found>>

\* AJScraperPipeline (src/aj_scraper/main.py)
VARIABLES
    p_pc,               \* "idle", "phase1", "phase2", "phase3" (the step main
                        \* or run is about to take), "end", "exit" (sys.exit(1))
    p_phase,            \* args.phase, 0 when the option is absent
    p_skip1,            \* self.skip_phase1
    p_skip2,            \* self.skip_phase2
    p_files,            \* administrateurs_idf.json and sites_analysis.json
    p_administrateurs,  \* self.administrateurs
    p_sites_analysis,   \* self.sites_analysis
    p_extractions,      \* the calls of extract_annonces_from_page
    p_annonces,         \* self.annonces
    p_filtered          \* self.filtered_annonces

pipeVars == <<p_pc, p_phase, p_skip1, p_skip2, p_files, p_administrateurs,
              p_sites_analysis, p_extractions, p_annonces, p_filtered>>
lateVars == <<siteVars, pipeVars>>
restVars == <<annuaireVars, filterVars, extractVars, lateVars>>
vars == <<crawlVars, normVars, restVars>>

Empty == [u \in {} |-> None]   \* the empty dict

(***************************************************************************)
(* QuadraticLabsScraper.__init__                                           *)
(***************************************************************************)
Constructed(seed) ==
    /\ base_url = seed
    /\ domain = urlparse(seed).netloc
    /\ visited_urls = {}
    /\ found_urls = {}
    /\ url_hierarchy = Empty
    /\ url_depth = Empty
    /\ to_visit = << >>
    /\ max_pages = 0
    /\ pc = "constructed"
    /\ result = << >>
    /\ fetch_log = << >>
    /\ get_count = Empty
    /\ pages = Empty
    /\ failed = {}

NormIdle ==
    /\ n_pc = "idle"
    /\ n_url = None
    /\ n_alt = None
    /\ n_key = None
    /\ n_altkey = None
    /\ n_key2 = None

\* AnnuaireScraper.__init__: self.administrateurs = []
AnnuaireIdle ==
    /\ a_pc = "idle"
    /\ a_url = 0
    /\ a_tries = << >>
    /\ a_sleeps = << >>
    /\ a_calls = << >>
    /\ a_links = 0
    /\ administrateurs = << >>
    /\ a_ret = << >>

\* no AnnonceFilter has been built
FilterIdle ==
    /\ f_pc = "idle"
    /\ f_departments = << >>
    /\ f_annonces = << >>
    /\ f_op = "none"
    /\ f_args = << >>
    /\ f_out = << >>
    /\ f_verdicts = << >>

\* no page has been given to an AnnonceScraper
ExtractIdle ==
    /\ e_pc = "idle"
    /\ e_tables = << >>
    /\ e_blocks = << >>
    /\ e_mode = "none"
    /\ e_out = << >>

\* no SiteAnalyzer has been built
SiteIdle ==
    /\ s_pc = "idle"
    /\ s_max = 0
    /\ s_sites = << >>
    /\ s_results = << >>
    /\ s_gets = << >>
    /\ s_scans = << >>
    /\ s_visited = {}
    /\ s_to_visit = << >>
    /\ s_found = {}

\* main has not been called
PipeIdle ==
    /\ p_pc = "idle"
    /\ p_phase = 0
    /\ p_skip1 = FALSE
    /\ p_skip2 = FALSE
    /\ p_files = << >>
    /\ p_administrateurs = << >>
    /\ p_sites_analysis = << >>
    /\ p_extractions = << >>
    /\ p_annonces = << >>
    /\ p_filtered = << >>

LateIdle == SiteIdle /\ PipeIdle

RestIdle == AnnuaireIdle /\ FilterIdle /\ ExtractIdle /\ LateIdle

Init == (\E seed \in Seeds : Constructed(seed)) /\ NormIdle /\ RestIdle

(***************************************************************************)
(* The pieces of scrape.                                                   *)
(***************************************************************************)
\* the while condition with <= in place of <
LoopCond_offByOne(q, visited, mp) == q # << >> /\ Cardinality(visited) <= mp

\* while to_visit and len(self.visited_urls) < max_pages
LoopCond(q, visited, mp) == q # << >> /\ Cardinality(visited) < mp

\* to_visit.pop(): the queue used as a stack
PopIndex_last(q) == Len(q)

\* to_visit.pop(0)
PopIndex(q) == 1

\* the popped entry left in the queue
RemoveAt_keep(q, i) == q

\* what pop leaves in the queue
RemoveAt(q, i) == SubSeq(q, 1, i - 1) \o SubSeq(q, i + 1, Len(q))

\* if url not in self.url_hierarchy: self.url_hierarchy[url] = {...}
InitHierarchy(h, url, parent, depth) ==
    IF url \in DOMAIN h THEN h
    ELSE h @@ (url :> [parent |-> parent, children |-> << >>, depth |-> depth])

\* if current_url not in self.url_depth: self.url_depth[current_url] = depth
StoreDepth(d, url, depth) ==
    IF url \in DOMAIN d THEN d ELSE d @@ (url :> depth)

\* the visited URL left out of the children of its parent
AddChild_never(h, parent, url) == h

\* if parent_url and parent_url in self.url_hierarchy: append the child once
AddChild(h, parent, url) ==
    IF parent # None /\ parent \in DOMAIN h /\ url \notin Range(h[parent].children)
    THEN [h EXCEPT ![parent].children = Append(@, url)]
    ELSE h

\* the links of one page, for link in links: if link not in
\* self.url_hierarchy: self.url_hierarchy[link] = {parent, [], depth}
\* without the membership test: the last discoverer overwrites the entry
InitLinks_overwrite(h, links, parent, depth) ==
    [l \in DOMAIN h \cup links |->
        IF l \in links
        THEN [parent |-> parent, children |-> << >>, depth |-> depth]
        ELSE h[l]]

\* for link in links: if link not in self.url_hierarchy:
\*     self.url_hierarchy[link] = {parent, [], depth}
InitLinks(h, links, parent, depth) ==
    [l \in DOMAIN h \cup links |->
        IF l \in DOMAIN h
        THEN h[l]
        ELSE [parent |-> parent, children |-> << >>, depth |-> depth]]

\* the links of a page recorded at the depth of the page itself
ChildDepth_same(depth) == depth

\* the depth given to the links of a page popped at depth
ChildDepth(depth) == depth + 1

\* the links kept by the for loop of get_links_from_page
GetLinks(raw, dom) == {normalize_url(a) : a \in {r \in raw : is_valid_url(r, dom)}}

\* what get_links_from_page returns when the fetch raises
LinksOnError == {}

\* the exception of a failed fetch leaves scrape
PcOnError_abort == "done"

\* where the while loop goes after an iteration whose fetch raised
PcOnError == "loop"

\* scrape: Initialise la racine
ScrapeBegin ==
    /\ pc = "constructed"
    /\ \E mp \in 0..MaxPagesBound : max_pages' = mp
    /\ to_visit' = <<[url |-> base_url, parent |-> None, depth |-> 0]>>
    /\ url_depth' = (base_url :> 0) @@ url_depth
    /\ url_hierarchy' = (base_url :> [parent |-> None, children |-> << >>, depth |-> 0])
                          @@ url_hierarchy
    /\ pc' = "loop"
    /\ UNCHANGED <<base_url, domain, visited_urls, found_urls, result,
                   fetch_log, get_count, pages, failed, normVars, restVars>>

\* one iteration of the while loop that hits "continue"
LoopSkip ==
    /\ pc = "loop"
    /\ LoopCond(to_visit, visited_urls, max_pages)
    /\ to_visit[PopIndex(to_visit)].url \in visited_urls
    /\ to_visit' = RemoveAt(to_visit, PopIndex(to_visit))
    /\ UNCHANGED <<base_url, domain, visited_urls, found_urls, url_hierarchy,
                   url_depth, max_pages, pc, result, fetch_log, get_count,
                   pages, failed, normVars, restVars>>

\* one full iteration of the while loop: ok tells whether session.get and
\* raise_for_status succeeded, links is what get_links_from_page returns and
\* order the order in which the for loop walks them
Iterate(ok, links, order) ==
    LET entry   == to_visit[PopIndex(to_visit)]
        cur     == entry.url
        rest    == RemoveAt(to_visit, PopIndex(to_visit))
        visited == visited_urls \cup {cur}
        h1      == InitHierarchy(url_hierarchy, cur, entry.parent, entry.depth)
        h2      == AddChild(h1, entry.parent, cur)
        IsNew(l) == l \notin visited
        new     == SelectSeq(order, IsNew)
        newEntry(l) == [url |-> l, parent |-> cur, depth |-> ChildDepth(entry.depth)]
    IN  /\ pc = "loop"
        /\ LoopCond(to_visit, visited_urls, max_pages)
        /\ cur \notin visited_urls
        /\ visited_urls' = visited
        /\ url_depth' = StoreDepth(url_depth, cur, entry.depth)
        /\ fetch_log' = Append(fetch_log, cur)
        /\ get_count' = IF cur \in DOMAIN get_count
                        THEN [get_count EXCEPT ![cur] = @ + 1]
                        ELSE get_count @@ (cur :> 1)
        /\ pages' = IF ok THEN (cur :> links) @@ pages ELSE pages
        /\ failed' = IF ok THEN failed ELSE failed \cup {cur}
        /\ to_visit' = rest \o [k \in 1..Len(new) |-> newEntry(new[k])]
        /\ found_urls' = found_urls \cup {cur} \cup Range(new)
        /\ url_hierarchy' = InitLinks(h2, Range(new), cur, ChildDepth(entry.depth))
        /\ pc' = IF ok THEN "loop" ELSE PcOnError
        /\ UNCHANGED <<base_url, domain, max_pages, result, normVars, restVars>>

\* an iteration whose fetch succeeds; requests has no connection adapter
\* for a scheme other than http(s): session.get raises InvalidSchema, a
\* RequestException, for such a URL
FetchOk ==
    /\ to_visit # << >>
    /\ Head(to_visit[PopIndex(to_visit)].url) = "http:"
    /\ \E links \in {GetLinks(raw, domain) : raw \in PageLinks} :
         \E order \in Orders(links) :
           Iterate(TRUE, links, order)

\* an iteration whose fetch raises requests.exceptions.RequestException
FetchFail == Iterate(FALSE, LinksOnError, [k \in 1..Cardinality(LinksOnError) |-> None])

\* the while condition is false: return sorted(list(self.found_urls))
LoopExit ==
    /\ pc = "loop"
    /\ ~LoopCond(to_visit, visited_urls, max_pages)
    /\ result' = sorted(found_urls)
    /\ pc' = "done"
    /\ UNCHANGED <<base_url, domain, visited_urls, found_urls, url_hierarchy,
                   url_depth, to_visit, max_pages, fetch_log, get_count,
                   pages, failed, normVars, restVars>>

Next == ScrapeBegin \/ LoopSkip \/ FetchOk \/ FetchFail \/ LoopExit

Spec == Init /\ [][Next]_vars


(***************************************************************************)
(* The canonicalizer alone: normalize_url applied to the URLs the crawler  *)
(* can pass to it, and to the key it returned.                             *)
(***************************************************************************)
SeqsUpTo(S, n) == UNION {[1..k -> S] : k \in 0..n}

\* paths without a trailing slash: "", "/a", "/aa", "//a", ...
BasePaths ==
    {<< >>} \cup {<<"/">> \o s : s \in {t \in SeqsUpTo({"a", "/"}, MaxPath) :
                                           t # << >> /\ t[Len(t)] # "/"}}
\* no query, or "?" and its characters
QueryParts == {<< >>} \cup {<<"?">> \o s : s \in SeqsUpTo({"a", "/"}, MaxQuery)}
\* no fragment, or "#" and its characters
FragmentParts == {<< >>, <<"#">>, <<"#", "a">>, <<"#", "/">>}
SlashParts == {<< >>, <<"/">>}

BuildUrl(path, slash, query, frag) == Http \o <<"h">> \o path \o slash \o query \o frag

InitNorm ==
    /\ Constructed(SeedPlain)
    /\ RestIdle
    /\ n_pc = "input"
    /\ \E path \in BasePaths, query \in QueryParts :
         \E s1, s2 \in SlashParts, f1, f2 \in FragmentParts :
            /\ n_url = BuildUrl(path, s1, query, f1)
            /\ n_alt = BuildUrl(path, s2, query, f2)
    /\ n_key = None
    /\ n_altkey = None
    /\ n_key2 = None

\* get_links_from_page: if self.is_valid_url(absolute_url): normalize it
NormalizeOnce ==
    /\ n_pc = "input"
    /\ is_valid_url(n_url, domain) /\ is_valid_url(n_alt, domain)
    /\ n_key' = normalize_url(n_url)
    /\ n_altkey' = normalize_url(n_alt)
    /\ n_pc' = "once"
    /\ UNCHANGED <<crawlVars, restVars, n_url, n_alt, n_key2>>

\* the key is normalized again
NormalizeTwice ==
    /\ n_pc = "once"
    /\ n_key2' = normalize_url(n_key)
    /\ n_pc' = "twice"
    /\ UNCHANGED <<crawlVars, restVars, n_url, n_alt, n_key, n_altkey>>

NextNorm == NormalizeOnce \/ NormalizeTwice

SpecNorm == InitNorm /\ [][NextNorm]_vars

(***************************************************************************)
(* Derived notions used by the properties.                                 *)
(***************************************************************************)
QueueUrls == {to_visit[i].url : i \in DOMAIN to_visit}

\* the pages reachable from a set through the links of the fetched pages
RECURSIVE ReachFrom(_)
ReachFrom(S) ==
    LET nxt == S \cup UNION {pages[p] : p \in S \cap DOMAIN pages}
    IN  IF nxt = S THEN S ELSE ReachFrom(nxt)

Reachable == ReachFrom({base_url})

\* length of the shortest link path from S (at distance k) to u, -1 if none
RECURSIVE DistFrom(_, _, _)
DistFrom(S, k, u) ==
    IF u \in S THEN k
    ELSE LET nxt == S \cup UNION {pages[p] : p \in S \cap DOMAIN pages}
         IN  IF nxt = S THEN -1 ELSE DistFrom(nxt, k + 1, u)

Dist(u) == DistFrom({base_url}, 0, u)

IsPrefix(s, t) == Len(s) <= Len(t) /\ SubSeq(t, 1, Len(s)) = s

\* the first fetched page whose links contain u
FirstDiscoverer(u) ==
    LET idx == {i \in DOMAIN fetch_log :
                  fetch_log[i] \in DOMAIN pages /\ u \in pages[fetch_log[i]]}
    IN  IF idx = {} THEN None ELSE fetch_log[SetMin(idx)]

(***************************************************************************)
(* C1: in one run of scrape no canonical URL is passed to                  *)
(* get_links_from_page more than once, the seed included; two URLs are the *)
(* same canonical URL when normalize_url gives them the same key.          *)
(***************************************************************************)
C1_NoCanonicalRefetch ==
    \A i, j \in DOMAIN fetch_log :
        normalize_url(fetch_log[i]) = normalize_url(fetch_log[j]) => i = j

(***************************************************************************)
(* C2 as stated: the list scrape returns never holds more than max_pages   *)
(* URLs, and holds exactly max_pages URLs when more than max_pages pages   *)
(* are reachable from the seed.                                            *)
(***************************************************************************)
C2_ResultWithinCap ==
    pc = "done" =>
        /\ Len(result) <= max_pages
        /\ Cardinality(Reachable) > max_pages => Len(result) = max_pages

(***************************************************************************)
(* C2 amended: scrape never fetches more than max_pages URLs               *)
(* (len(visited_urls) <= max_pages), and when it returns it has fetched    *)
(* exactly max_pages URLs whenever more than max_pages pages are reachable *)
(* from the seed: if fewer were fetched, every reachable page was.         *)
(***************************************************************************)
C2_VisitedWithinCap ==
    /\ Cardinality(visited_urls) <= max_pages
    /\ pc = "done" =>
          /\ Cardinality(Reachable) > max_pages =>
                Cardinality(visited_urls) = max_pages
          /\ Cardinality(visited_urls) < max_pages => Reachable \subseteq visited_urls

\* scrape returned more URLs than max_pages after fetching exactly max_pages
C2_Witness ==
    /\ pc = "done"
    /\ max_pages > 0
    /\ Cardinality(Reachable) > max_pages
    /\ Cardinality(visited_urls) = max_pages
    /\ Len(result) > max_pages

(***************************************************************************)
(* C3: the seed has depth 0, every other recorded URL has the depth of its *)
(* recorded parent plus 1, and url_depth[u] and url_hierarchy[u]['depth']  *)
(* agree for every URL present in both.                                    *)
(***************************************************************************)
C3_DepthIsParentPlusOne ==
    pc # "constructed" =>
        /\ url_depth[base_url] = 0
        /\ url_hierarchy[base_url].depth = 0
        /\ \A u \in DOMAIN url_hierarchy \ {base_url} :
              /\ url_hierarchy[u].parent \in DOMAIN url_hierarchy
              /\ url_hierarchy[u].depth =
                    url_hierarchy[url_hierarchy[u].parent].depth + 1
        /\ \A u \in DOMAIN url_depth \ {base_url} :
              /\ url_hierarchy[u].parent \in DOMAIN url_depth
              /\ url_depth[u] = url_depth[url_hierarchy[u].parent] + 1
        /\ \A u \in DOMAIN url_depth \cap DOMAIN url_hierarchy :
              url_depth[u] = url_hierarchy[u].depth

\* a URL two links away from the seed has been fetched, and a deeper one
\* is recorded
C3_Witness ==
    /\ \E u \in DOMAIN url_depth : url_depth[u] = 2
    /\ \E u \in DOMAIN url_hierarchy : url_hierarchy[u].depth = 3

(***************************************************************************)
(* C4: a URL discovered through several parent pages keeps the parent that *)
(* discovered it first: its recorded parent never changes once set, and    *)
(* the URL is in the children list of that first parent only.              *)
(***************************************************************************)
C4_ParentIsFirst ==
    \A u \in DOMAIN url_hierarchy \ {base_url} :
        /\ url_hierarchy[u].parent = FirstDiscoverer(u)
        /\ \A p \in DOMAIN url_hierarchy :
              u \in Range(url_hierarchy[p].children) => p = url_hierarchy[u].parent

C4_ParentStable ==
    \A u \in DOMAIN url_hierarchy :
        /\ u \in DOMAIN url_hierarchy'
        /\ url_hierarchy'[u].parent = url_hierarchy[u].parent

C4_FirstParentOnly == [] C4_ParentIsFirst /\ [][C4_ParentStable]_vars

\* a fetched URL that two different fetched pages link to, listed as a
\* child of the first one
C4_Witness ==
    \E u \in visited_urls \ {base_url} :
        /\ \E p, q \in DOMAIN pages :
              p # q /\ p # u /\ q # u /\ u \in pages[p] /\ u \in pages[q]
        /\ u \in Range(url_hierarchy[url_hierarchy[u].parent].children)

(***************************************************************************)
(* C5: two absolute URLs that differ only by their fragment and/or by a    *)
(* trailing slash on the path, with or without a query string, get the     *)
(* same key from normalize_url.                                            *)
(***************************************************************************)
C5_SameKey == n_pc \in {"once", "twice"} => n_key = n_altkey

(***************************************************************************)
(* C6: normalize_url is idempotent on every URL the crawler passes to it:  *)
(* normalize_url(normalize_url(u)) = normalize_url(u).                     *)
(***************************************************************************)
C6_Idempotent == n_pc = "twice" => n_key2 = n_key

(***************************************************************************)
(* C7: every URL that scrape enqueues, fetches or returns, other than the  *)
(* seed, has the host self.domain: a link with another host or with no     *)
(* host is never enqueued.                                                 *)
(***************************************************************************)
C7_SameHostOnly ==
    \A u \in (QueueUrls \cup Range(fetch_log) \cup found_urls \cup Range(result))
                \ {base_url} :
        urlparse(u).netloc = domain

(***************************************************************************)
(* C8: a failed fetch does not abort the crawl: the failed URL stays in    *)
(* visited_urls and is fetched once only, it contributes no outgoing link, *)
(* and the loop goes on until the queue is empty or the page cap is hit.   *)
(***************************************************************************)
C8_FailureIsLocal ==
    /\ \A u \in failed :
          /\ u \in visited_urls
          /\ Cardinality({i \in DOMAIN fetch_log : fetch_log[i] = u}) = 1
          /\ u \notin DOMAIN pages
          /\ url_hierarchy[u].children = << >>
          /\ \A i \in DOMAIN to_visit : to_visit[i].parent # u
          /\ \A v \in DOMAIN url_hierarchy : url_hierarchy[v].parent # u
    /\ pc = "done" => ~LoopCond(to_visit, visited_urls, max_pages)

\* a fetch failed while the queue was not empty, and a later fetch succeeded
C8_Witness ==
    /\ pc = "done"
    /\ \E i, j \in DOMAIN fetch_log :
          i < j /\ fetch_log[i] \in failed /\ fetch_log[j] \in DOMAIN pages

(***************************************************************************)
(* C9: scrape pops its queue in insertion order, so the URLs are fetched   *)
(* in non-decreasing depth, and the depth recorded for a fetched URL is    *)
(* the length of the shortest link path from the seed through the          *)
(* successfully fetched pages.                                             *)
(***************************************************************************)
C9_ShortestDepth ==
    /\ \A i, j \in DOMAIN fetch_log :
          i < j => url_depth[fetch_log[i]] <= url_depth[fetch_log[j]]
    /\ \A u \in Range(fetch_log) : url_depth[u] = Dist(u)

\* the loop only ever removes the oldest entry and appends after the others
C9_PopsOldest ==
    (pc = "loop" /\ to_visit # << >> /\ to_visit' # to_visit)
        => IsPrefix(Tail(to_visit), to_visit')

C9_BreadthFirst == [] C9_ShortestDepth /\ [][C9_PopsOldest]_vars

\* three URLs were fetched, the third at depth 2, and the second one is
\* linked from two fetched pages, so that a longer path to it exists
C9_Witness ==
    /\ Len(fetch_log) = 3
    /\ url_depth[fetch_log[3]] = 2
    /\ \E p, q \in DOMAIN pages : p # q /\ fetch_log[2] \in pages[p] \cap pages[q]

(***************************************************************************)
(* C10: a fetch that fails transiently during the crawl is retried up to   *)
(* the retry bound, and the URL is marked failed only after MAX_RETRIES    *)
(* attempts.                                                               *)
(***************************************************************************)
C10_RetriedUpToBound == \A u \in failed : get_count[u] = MAX_RETRIES


(***************************************************************************)
(* AnnuaireScraper._get_page_with_requests and scrape_all_pages, followed  *)
(* by AJScraperPipeline.phase1_extract_administrateurs.                    *)
(***************************************************************************)
MaxPagination == 2   \* pagination links found on the first page
MaxAdmins == 1       \* administrators parsed out of one page

DELAY_BETWEEN_REQUESTS == 1

NoHtml == "None"     \* the None that get_page returns
SomeHtml == "text"   \* response.text

\* the backoff without the attempt factor
Backoff_constant(attempt) == DELAY_BETWEEN_REQUESTS

\* time.sleep(DELAY_BETWEEN_REQUESTS * (attempt + 1))
Backoff(attempt) == DELAY_BETWEEN_REQUESTS * (attempt + 1)

\* if attempt < MAX_RETRIES - 1
SleepsAfter(attempt) == attempt < MAX_RETRIES - 1

\* parse_annuaire_page: the k administrators of a page, in page order
ParseAnnuairePage(page, k) == [i \in 1..k |-> <<page, i>>]

Call(url, tries, sleeps, html) ==
    [url |-> url, tries |-> tries, sleeps |-> sleeps, html |-> html]

\* scrape_all_pages from the point where get_page(a_url) returned html
AfterGetPage(html) ==
    IF a_url = 0
    THEN IF html = NoHtml
         THEN \* if not html: return []
              /\ a_ret' = << >>
              /\ a_pc' = "returned"
              /\ UNCHANGED <<a_url, a_links, administrateurs>>
         ELSE \E k \in 0..MaxAdmins, n \in 0..MaxPagination :
                LET admins == administrateurs \o ParseAnnuairePage(0, k) IN
                /\ administrateurs' = admins
                /\ a_links' = n
                /\ IF n = 0
                   THEN a_pc' = "returned" /\ a_ret' = admins /\ a_url' = a_url
                   ELSE a_pc' = "get" /\ a_ret' = a_ret /\ a_url' = 1
    ELSE \E k \in 0..MaxAdmins :
           LET admins == IF html = NoHtml THEN administrateurs
                         ELSE administrateurs \o ParseAnnuairePage(a_url, k) IN
           /\ html = NoHtml => k = 0
           /\ administrateurs' = admins
           /\ a_links' = a_links
           /\ IF a_url = a_links
              THEN a_pc' = "returned" /\ a_ret' = admins /\ a_url' = a_url
              ELSE a_pc' = "get" /\ a_ret' = a_ret /\ a_url' = a_url + 1

\* html = self.get_page(ANNUAIRE_URL): the first call
ScrapeAllPages ==
    /\ a_pc = "idle"
    /\ a_pc' = "get"
    /\ UNCHANGED <<a_url, a_tries, a_sleeps, a_calls, a_links, administrateurs,
                   a_ret, crawlVars, normVars, filterVars,
                   extractVars, lateVars>>

\* an attempt whose session.get and raise_for_status succeed: return
\* response.text, and scrape_all_pages goes on with the page
AttemptOk ==
    /\ a_pc = "get"
    /\ Len(a_tries) < MAX_RETRIES
    /\ a_calls' = Append(a_calls,
                         Call(a_url, Append(a_tries, "ok"), a_sleeps, SomeHtml))
    /\ a_tries' = << >>
    /\ a_sleeps' = << >>
    /\ AfterGetPage(SomeHtml)
    /\ UNCHANGED <<crawlVars, normVars, filterVars,
                   extractVars, lateVars>>

\* an attempt that raises a RequestException: sleep and try again, or leave
\* the for loop and return None
AttemptError ==
    /\ a_pc = "get"
    /\ Len(a_tries) < MAX_RETRIES
    /\ LET attempt == Len(a_tries)
           tries == Append(a_tries, "error")
           sleeps == IF SleepsAfter(attempt)
                     THEN Append(a_sleeps, Backoff(attempt)) ELSE a_sleeps
       IN IF attempt + 1 < MAX_RETRIES
          THEN /\ a_tries' = tries
               /\ a_sleeps' = sleeps
               /\ UNCHANGED <<a_pc, a_url, a_calls, a_links, administrateurs,
                              a_ret>>
          ELSE /\ a_calls' = Append(a_calls, Call(a_url, tries, sleeps, NoHtml))
               /\ a_tries' = << >>
               /\ a_sleeps' = << >>
               /\ AfterGetPage(NoHtml)
    /\ UNCHANGED <<crawlVars, normVars, filterVars,
                   extractVars, lateVars>>

\* phase1_extract_administrateurs after scrape_all_pages returned:
\* if not self.administrateurs: sys.exit(1); else save_results
Phase1End ==
    /\ a_pc = "returned"
    /\ a_pc' = IF a_ret = << >> THEN "exit" ELSE "saved"
    /\ UNCHANGED <<a_url, a_tries, a_sleeps, a_calls, a_links, administrateurs,
                   a_ret, crawlVars, normVars, filterVars,
                   extractVars, lateVars>>

InitAnnuaire ==
    Constructed(SeedPlain) /\ NormIdle /\ LateIdle /\ AnnuaireIdle /\ FilterIdle /\ ExtractIdle

NextAnnuaire == ScrapeAllPages \/ AttemptOk \/ AttemptError \/ Phase1End

SpecAnnuaire == InitAnnuaire /\ [][NextAnnuaire]_vars

\* the sleeps made before attempt n + 1: DELAY_BETWEEN_REQUESTS x k after the
\* failed attempt k
LinearSleeps(n) == [k \in 1..n |-> DELAY_BETWEEN_REQUESTS * k]

C11_Running ==
    a_pc = "get" =>
        /\ Len(a_tries) < MAX_RETRIES
        /\ \A j \in 1..Len(a_tries) : a_tries[j] = "error"
        /\ a_sleeps = LinearSleeps(Len(a_tries))

C11_Finished ==
    \A i \in 1..Len(a_calls) :
        LET c == a_calls[i]
            n == Len(c.tries)
        IN /\ 1 <= n /\ n <= MAX_RETRIES
           /\ \A j \in 1..(n - 1) : c.tries[j] = "error"
           /\ c.tries[n] = "ok" => c.html = SomeHtml
           /\ c.tries[n] = "error" => n = MAX_RETRIES /\ c.html = NoHtml
           /\ c.sleeps = LinearSleeps(n - 1)

\* C11: a call of _get_page_with_requests makes at most MAX_RETRIES attempts,
\* every attempt before its last one failed (it stops at the first success),
\* the wait after the failed attempt k is DELAY_BETWEEN_REQUESTS x k, there is
\* no wait after the last attempt, and it returns None exactly when all
\* MAX_RETRIES attempts failed.
C11_BoundedLinearRetry == C11_Running /\ C11_Finished

\* one call exhausted its attempts and another succeeded at its second
C11_Witness ==
    \E i, j \in 1..Len(a_calls) :
        /\ a_calls[i].html = NoHtml
        /\ Len(a_calls[i].sleeps) = MAX_RETRIES - 1
        /\ a_calls[j].html = SomeHtml
        /\ Len(a_calls[j].tries) = 2

\* C12: once a page has exhausted its retries the run is not aborted: phase 1
\* does not end in sys.exit.
C12_ExhaustionNeverAborts ==
    (\E i \in 1..Len(a_calls) : a_calls[i].html = NoHtml) => a_pc # "exit"


(***************************************************************************)
(* AnnonceFilter (src/aj_scraper/filters.py).  A str is the sequence of    *)
(* its characters; a record of the filter is a dict with the keys titre,   *)
(* description, secteur, entreprise, localisation and prix.                *)
(***************************************************************************)
MaxRecords == 2      \* records in the list given to a filter

NoneValue == <<"<None>">>   \* Python's None as the value of a key
Absent == <<"<absent>">>    \* the key is not in the dict
NoList == <<NoneValue>>     \* None given for a list of str

\* dict.get(key, default)
Get(annonce, key, default) ==
    IF annonce[key] = Absent THEN default ELSE annonce[key]

\* str(value)
str(value) == IF value = NoneValue THEN <<"N", "o", "n", "e">> ELSE value

\* the truth value of a str or None
Truthy(value) == value # NoneValue /\ value # << >>

UPPER == <<"A", "B", "C", "D", "E", "F", "G", "H", "I", "J", "K", "L", "M",
    "N", "O", "P", "Q", "R", "S", "T", "U", "V", "W", "X", "Y", "Z", "É",
    "È", "Î">>
LOWER == <<"a", "b", "c", "d", "e", "f", "g", "h", "i", "j", "k", "l", "m",
    "n", "o", "p", "q", "r", "s", "t", "u", "v", "w", "x", "y", "z", "é",
    "è", "î">>

LowerChar(c) ==
    IF \E i \in 1..Len(UPPER) : UPPER[i] = c
    THEN LOWER[CHOOSE i \in 1..Len(UPPER) : UPPER[i] = c]
    ELSE c

\* str.lower
RECURSIVE lower(_)
lower(s) ==
    IF Len(s) = 0 THEN << >>
    ELSE IF Len(s) = 1 THEN <<LowerChar(s[1])>>
    ELSE LET half == Len(s) \div 2
         IN lower(SubSeq(s, 1, half)) \o lower(SubSeq(s, half + 1, Len(s)))

DIGITS == <<"0", "1", "2", "3", "4", "5", "6", "7", "8", "9">>

\* \d
IsDigit(c) == \E i \in 1..Len(DIGITS) : DIGITS[i] = c

\* \w
IsWordChar(c) ==
    \/ IsDigit(c)
    \/ c = "_"
    \/ \E i \in 1..Len(UPPER) : UPPER[i] = c \/ LOWER[i] = c

\* sub in text
Contains(text, sub) ==
    \/ Len(sub) = 0
    \/ \E i \in 1..(Len(text) - Len(sub) + 1) :
          /\ text[i] = sub[1]
          /\ SubSeq(text, i, i + Len(sub) - 1) = sub

\* " ".join(parts)
RECURSIVE join(_)
join(parts) ==
    IF Len(parts) = 0 THEN << >>
    ELSE IF Len(parts) = 1 THEN parts[1]
    ELSE parts[1] \o <<" ">> \o join(Tail(parts))

\* any(keyword in text for keyword in keywords)
AnyIn(keywords, text) == \E i \in 1..Len(keywords) : Contains(text, keywords[i])

TARGET_DEPARTMENTS == <<
    <<"7", "5">>,
    <<"7", "7">>,
    <<"7", "8">>,
    <<"9", "1">>,
    <<"9", "2">>,
    <<"9", "3">>,
    <<"9", "4">>,
    <<"9", "5">>
    >>

TARGET_SECTORS == <<
    <<"i", "n", "f", "o", "r", "m", "a", "t", "i", "q", "u", "e">>,
    <<"d", "a", "t", "a">>,
    <<"c", "o", "n", "s", "e", "i", "l">>,
    <<"n", "u", "m", "é", "r", "i", "q", "u", "e">>,
    <<"d", "i", "g", "i", "t", "a", "l">>,
    <<"t", "e", "c", "h", "n", "o", "l", "o", "g", "i", "e">>,
    <<"s", "o", "f", "t", "w", "a", "r", "e">>,
    <<"s", "a", "a", "s">>,
    <<"i", "n", "t", "e", "l", "l", "i", "g", "e", "n", "c", "e", " ", "a",
        "r", "t", "i", "f", "i", "c", "i", "e", "l", "l", "e">>,
    <<"i", "a">>,
    <<"m", "a", "c", "h", "i", "n", "e", " ", "l", "e", "a", "r", "n", "i",
        "n", "g">>,
    <<"d", "é", "v", "e", "l", "o", "p", "p", "e", "m", "e", "n", "t">>,
    <<"w", "e", "b">>,
    <<"c", "l", "o", "u", "d">>,
    <<"c", "y", "b", "e", "r", "s", "é", "c", "u", "r", "i", "t", "é">>,
    <<"a", "n", "a", "l", "y", "s", "e">>,
    <<"c", "o", "n", "s", "u", "l", "t", "i", "n", "g">>
    >>

tech_keywords == <<
    <<"i", "t">>,
    <<"t", "e", "c", "h">>,
    <<"l", "o", "g", "i", "c", "i", "e", "l">>,
    <<"s", "o", "f", "t", "w", "a", "r", "e">>,
    <<"a", "p", "p", "l", "i", "c", "a", "t", "i", "o", "n">>,
    <<"s", "i", "t", "e", " ", "w", "e", "b">>,
    <<"w", "e", "b", "a", "p", "p">>,
    <<"p", "l", "a", "t", "e", "f", "o", "r", "m", "e">>,
    <<"a", "p", "i">>,
    <<"e", "r", "p">>,
    <<"c", "r", "m">>,
    <<"s", "a", "a", "s">>,
    <<"p", "a", "a", "s">>,
    <<"c", "l", "o", "u", "d">>,
    <<"d", "a", "t", "a", "b", "a", "s", "e">>,
    <<"d", "é", "v", "e", "l", "o", "p", "p", "e", "u", "r">>,
    <<"p", "r", "o", "g", "r", "a", "m", "m", "e", "r">>,
    <<"d", "a", "t", "a", " ", "s", "c", "i", "e", "n", "t", "i", "s", "t">>,
    <<"a", "n", "a", "l", "y", "s", "t", "e">>
    >>

region_keywords == <<
    <<"p", "a", "r", "i", "s">>,
    <<"î", "l", "e", "-", "d", "e", "-", "f", "r", "a", "n", "c", "e">>,
    <<"i", "l", "e", "-", "d", "e", "-", "f", "r", "a", "n", "c", "e">>,
    <<"i", "d", "f">>,
    <<"s", "e", "i", "n", "e", "-", "e", "t", "-", "m", "a", "r", "n", "e">>,
    <<"y", "v", "e", "l", "i", "n", "e", "s">>,
    <<"e", "s", "s", "o", "n", "n", "e">>,
    <<"h", "a", "u", "t", "s", "-", "d", "e", "-", "s", "e", "i", "n", "e">>,
    <<"s", "e", "i", "n", "e", "-", "s", "a", "i", "n", "t", "-", "d", "e",
        "n", "i", "s">>,
    <<"v", "a", "l", "-", "d", "e", "-", "m", "a", "r", "n", "e">>,
    <<"v", "a", "l", "-", "d", "'", "o", "i", "s", "e">>
    >>

\* self.target_sectors_lower of AnnonceFilter()
target_sectors_lower ==
    [i \in 1..Len(TARGET_SECTORS) |-> lower(TARGET_SECTORS[i])]

\* target_departments or TARGET_DEPARTMENTS
DepartmentsOr(target_departments) ==
    IF target_departments = NoList \/ target_departments = << >>
    THEN TARGET_DEPARTMENTS ELSE target_departments

\* _matches_sector
matches_sector(annonce) ==
    LET search_text == lower(join(<<str(Get(annonce, "titre", << >>)),
                                    str(Get(annonce, "description", << >>)),
                                    str(Get(annonce, "secteur", << >>)),
                                    str(Get(annonce, "entreprise", << >>))>>))
    IN \/ AnyIn(target_sectors_lower, search_text)
       \/ AnyIn(tech_keywords, search_text)

\* \b at position p of text (between text[p - 1] and text[p])
WordBoundary(text, p) ==
    LET before == p > 1 /\ IsWordChar(text[p - 1])
        after == p <= Len(text) /\ IsWordChar(text[p])
    IN before # after

\* the department code anywhere in the location
PostalSearch_substring(dept, location) == Contains(location, dept)

\* re.search(rf'\b{dept}\d{{3}}\b', location)
PostalSearch(dept, location) ==
    \E i \in 1..Len(location) :
        LET d == i + Len(dept)     \* first of the three digits
            e == d + 3             \* position after the match
        IN /\ e - 1 <= Len(location)
           /\ SubSeq(location, i, d - 1) = dept
           /\ \A k \in d..(e - 1) : IsDigit(location[k])
           /\ WordBoundary(location, i)
           /\ WordBoundary(location, e)

\* _matches_location
matches_location(annonce, target_departments) ==
    LET location == lower(str(Get(annonce, "localisation", << >>)))
    IN \/ \E i \in 1..Len(target_departments) :
             PostalSearch(target_departments[i], location)
       \/ AnyIn(region_keywords, location)
       \/ location = << >>
       \/ location = <<"n", "o", "n", "e">>

\* the test of filter_by_keywords on one record
matches_keywords(annonce, keywords, exclude) ==
    LET keywords_lower == [i \in 1..Len(keywords) |-> lower(keywords[i])]
        search_text == lower(join(<<str(Get(annonce, "titre", << >>)),
                                    str(Get(annonce, "description", << >>))>>))
        has_keyword == AnyIn(keywords_lower, search_text)
    IN (has_keyword /\ ~exclude) \/ (~has_keyword /\ exclude)

\* re.sub(r'[^\d]', '', s)
DigitsOf(s) == SelectSeq(s, IsDigit)

DigitValue(c) == (CHOOSE i \in 1..Len(DIGITS) : DIGITS[i] = c) - 1

\* int(s) of a non-empty str of digits
RECURSIVE int(_)
int(s) ==
    IF Len(s) = 0 THEN 0
    ELSE 10 * int(SubSeq(s, 1, Len(s) - 1)) + DigitValue(s[Len(s)])

\* an optional int argument: << >> is None, <<n>> is n
NoBound == << >>
Bound(n) == <<n>>
\* the truth value of an optional int
BoundTruthy(b) == Len(b) > 0 /\ b[1] # 0

\* except (ValueError, TypeError): the record is dropped
KeepOnValueError_drop == FALSE

\* except (ValueError, TypeError): filtered.append(annonce)
KeepOnValueError == TRUE

\* the body of the loop of filter_by_price: TRUE when annonce is appended
price_keeps(annonce, min_price, max_price) ==
    LET prix_str == Get(annonce, "prix", NoneValue)
    IN IF ~Truthy(prix_str) THEN TRUE
       ELSE LET digits == DigitsOf(str(prix_str))
            IN IF digits = << >> THEN KeepOnValueError   \* int('')
               ELSE LET prix == int(digits)
                    IN /\ ~(BoundTruthy(min_price) /\ prix < min_price[1])
                       /\ ~(BoundTruthy(max_price) /\ prix > max_price[1])

filter_by_sector(annonces) == SelectSeq(annonces, matches_sector)

filter_by_location(annonces, target_departments) ==
    LET Test(annonce) == matches_location(annonce, target_departments)
    IN SelectSeq(annonces, Test)

filter_by_keywords(annonces, keywords, exclude) ==
    LET Test(annonce) == matches_keywords(annonce, keywords, exclude)
    IN SelectSeq(annonces, Test)

filter_by_price(annonces, min_price, max_price) ==
    LET Test(annonce) == price_keeps(annonce, min_price, max_price)
    IN SelectSeq(annonces, Test)

\* the truth value of a list argument (None or a list of str)
ListTruthy(l) == l # NoList /\ l # << >>

\* every stage filters the whole input again
Survivors_input(annonces, res) == annonces

\* result = self.filter_by_...(result, ...)
Survivors(annonces, res) == res

Args(fs, fl, ck, ek, mn, mx) ==
    [filter_sector |-> fs, filter_location |-> fl, custom_keywords |-> ck,
     exclude_keywords |-> ek, min_price |-> mn, max_price |-> mx]

apply_all_filters(annonces, args, target_departments) ==
    LET r0 == annonces
        r1 == IF args.filter_sector
              THEN filter_by_sector(Survivors(annonces, r0)) ELSE r0
        r2 == IF args.filter_location
              THEN filter_by_location(Survivors(annonces, r1),
                                      target_departments)
              ELSE r1
        r3 == IF ListTruthy(args.custom_keywords)
              THEN filter_by_keywords(Survivors(annonces, r2),
                                      args.custom_keywords, FALSE)
              ELSE r2
        r4 == IF ListTruthy(args.exclude_keywords)
              THEN filter_by_keywords(Survivors(annonces, r3),
                                      args.exclude_keywords, TRUE)
              ELSE r3
        r5 == IF BoundTruthy(args.min_price) \/ BoundTruthy(args.max_price)
              THEN filter_by_price(Survivors(annonces, r4),
                                   args.min_price, args.max_price)
              ELSE r4
    IN r5


Stages == {"sector", "location", "include", "exclude", "price"}

\* the test that makes apply_all_filters run a stage
Enabled(stage, args) ==
    CASE stage = "sector" -> args.filter_sector
      [] stage = "location" -> args.filter_location
      [] stage = "include" -> ListTruthy(args.custom_keywords)
      [] stage = "exclude" -> ListTruthy(args.exclude_keywords)
      [] stage = "price" ->
            BoundTruthy(args.min_price) \/ BoundTruthy(args.max_price)

\* the per-record predicate of a stage
StageKeeps(stage, annonce, args, target_departments) ==
    CASE stage = "sector" -> matches_sector(annonce)
      [] stage = "location" -> matches_location(annonce, target_departments)
      [] stage = "include" ->
            matches_keywords(annonce, args.custom_keywords, FALSE)
      [] stage = "exclude" ->
            matches_keywords(annonce, args.exclude_keywords, TRUE)
      [] stage = "price" ->
            price_keeps(annonce, args.min_price, args.max_price)

\* the verdict of every stage on one record: TRUE when the stage is not run
\* or keeps the record
Verdict(annonce, args, target_departments) ==
    LET Passes(stage) ==
            Enabled(stage, args)
                => StageKeeps(stage, annonce, args, target_departments)
    IN [sector |-> Passes("sector"), location |-> Passes("location"),
        include |-> Passes("include"), exclude |-> Passes("exclude"),
        price |-> Passes("price")]

\* the verdicts on the records of a list, position by position
Verdicts(annonces, args, target_departments) ==
    [i \in 1..Len(annonces) |-> Verdict(annonces[i], args, target_departments)]

(***************************************************************************)
(* filter_by_price, called directly and through apply_all_filters.         *)
(***************************************************************************)
\* a record of which only the price matters
PriceAnnonce(prix) ==
    [titre |-> <<"L", "o", "t">>, description |-> Absent, secteur |-> Absent,
     entreprise |-> Absent, localisation |-> Absent, prix |-> prix]

PRIX_NA == <<"N", "/", "A">>
PRIX_5 == <<"5">>
PRIX_250000 == <<"2", "5", "0", "0", "0", "0">>
PRIX_350000 == <<"3", "5", "0", "0", "0", "0">>

Prices == {Absent, NoneValue, << >>, PRIX_NA, PRIX_5, PRIX_250000, PRIX_350000}
PriceAnnonces == {PriceAnnonce(prix) : prix \in Prices}
PriceBounds == {NoBound, Bound(0), Bound(7), Bound(100000), Bound(300000)}

\* AnnonceFilter() and a list of records
FilterBuilt(target_departments, annonces) ==
    /\ f_pc = "input"
    /\ f_departments = DepartmentsOr(target_departments)
    /\ f_annonces = annonces
    /\ f_op = "none"
    /\ f_args = << >>
    /\ f_out = << >>
    /\ f_verdicts = << >>

InitPrice ==
    /\ Constructed(SeedPlain) /\ NormIdle /\ LateIdle /\ AnnuaireIdle /\ ExtractIdle
    /\ \E annonces \in SeqsUpTo(PriceAnnonces, MaxRecords) :
         FilterBuilt(NoList, annonces)

\* one call of apply_all_filters
ApplyAllFilters(args) ==
    /\ f_pc = "input"
    /\ f_out' = apply_all_filters(f_annonces, args, f_departments)
    /\ f_op' = "apply_all_filters"
    /\ f_args' = args
    /\ f_verdicts' = Verdicts(f_annonces, args, f_departments)
    /\ f_pc' = "done"
    /\ UNCHANGED <<f_departments, f_annonces, crawlVars, normVars,
                   annuaireVars, extractVars, lateVars>>

\* filter_by_price(annonces, min_price, max_price)
FilterByPrice ==
    /\ f_pc = "input"
    /\ \E mn, mx \in PriceBounds :
         /\ f_out' = filter_by_price(f_annonces, mn, mx)
         /\ f_args' = Args(FALSE, FALSE, NoList, NoList, mn, mx)
    /\ f_op' = "filter_by_price"
    /\ f_pc' = "done"
    /\ UNCHANGED <<f_departments, f_annonces, f_verdicts, crawlVars, normVars,
                   annuaireVars, extractVars, lateVars>>

\* apply_all_filters(annonces, filter_sector=False, filter_location=False,
\*                   min_price=..., max_price=...)
ApplyPriceOnly ==
    \E mn, mx \in PriceBounds :
        ApplyAllFilters(Args(FALSE, FALSE, NoList, NoList, mn, mx))

NextPrice == FilterByPrice \/ ApplyPriceOnly

SpecPrice == InitPrice /\ [][NextPrice]_vars

\* the record has a price whose digits make an integer
HasParsedPrice(annonce) ==
    /\ annonce.prix \notin {Absent, NoneValue, << >>}
    /\ \E i \in 1..Len(annonce.prix) : IsDigit(annonce.prix[i])

ParsedPrice(annonce) == int(DigitsOf(annonce.prix))

\* min <= p for a supplied min and p <= max for a supplied max
WithinSupplied(p, min_price, max_price) ==
    /\ min_price # NoBound => min_price[1] <= p
    /\ max_price # NoBound => p <= max_price[1]

\* C14: after filter_by_price or apply_all_filters with only price bounds, a
\* record whose price parses to p is in the result iff min <= p for a
\* supplied min and p <= max for a supplied max.
C14_PriceWithinSuppliedBounds ==
    f_pc = "done" =>
        \A a \in Range(f_annonces) :
            HasParsedPrice(a) =>
                (a \in Range(f_out) <=>
                    WithinSupplied(ParsedPrice(a), f_args.min_price,
                                   f_args.max_price))

\* C15: filter_by_price keeps every record with no price or with a price
\* without an integer in it, whatever min and max are; with min = 100000 and
\* max = 300000 it keeps 250000 and "N/A" and rejects 350000.
C15_UnparsableKept ==
    f_pc = "done" /\ f_op = "filter_by_price" =>
        /\ \A a \in Range(f_annonces) :
              ~HasParsedPrice(a) => a \in Range(f_out)
        /\ f_args.min_price = Bound(100000) /\ f_args.max_price = Bound(300000)
              => \A a \in Range(f_annonces) :
                    /\ a.prix = PRIX_250000 => a \in Range(f_out)
                    /\ a.prix = PRIX_NA => a \in Range(f_out)
                    /\ a.prix = PRIX_350000 => a \notin Range(f_out)

\* "N/A" and 350000 filtered with min = 100000 and max = 300000
C15_Witness ==
    /\ f_pc = "done" /\ f_op = "filter_by_price"
    /\ f_args.min_price = Bound(100000) /\ f_args.max_price = Bound(300000)
    /\ f_annonces = <<PriceAnnonce(PRIX_NA), PriceAnnonce(PRIX_350000)>>
    /\ f_out = <<PriceAnnonce(PRIX_NA)>>


(***************************************************************************)
(* filter_by_location, called directly and through apply_all_filters.      *)
(***************************************************************************)
\* a record of which only the location matters
LocationAnnonce(localisation) ==
    [titre |-> <<"L", "o", "t">>, description |-> Absent, secteur |-> Absent,
     entreprise |-> Absent, localisation |-> localisation, prix |-> Absent]

LOC_PARIS_75008 == <<"7", "5", "0", "0", "8", " ", "P", "a", "r", "i", "s">>
LOC_MARSEILLE_13001 == <<"1", "3", "0", "0", "1", " ", "M", "a", "r", "s",
    "e", "i", "l", "l", "e">>
LOC_BOULOGNE_92100 == <<"9", "2", "1", "0", "0", " ", "B", "o", "u", "l",
    "o", "g", "n", "e", "-", "B", "i", "l", "l", "a", "n", "c", "o", "u",
    "r", "t">>
LOC_MARSEILLE_75 == <<"M", "a", "r", "s", "e", "i", "l", "l", "e", " ", "7",
    "5">>
LOC_LYON_175008 == <<"1", "7", "5", "0", "0", "8", " ", "L", "y", "o", "n">>
LOC_YVELINES == <<"V", "e", "r", "s", "a", "i", "l", "l", "e", "s", ",", " ",
    "Y", "v", "e", "l", "i", "n", "e", "s">>

Locations ==
    {Absent, NoneValue, << >>, LOC_PARIS_75008, LOC_MARSEILLE_13001,
     LOC_BOULOGNE_92100, LOC_MARSEILLE_75, LOC_LYON_175008, LOC_YVELINES}
LocationAnnonces == {LocationAnnonce(l) : l \in Locations}

DEPT_75 == <<"7", "5">>
DEPT_92 == <<"9", "2">>
\* the target_departments argument of AnnonceFilter
DepartmentArgs == {NoList, <<DEPT_75>>, <<DEPT_75, DEPT_92>>}

InitLocation ==
    /\ Constructed(SeedPlain) /\ NormIdle /\ LateIdle /\ AnnuaireIdle /\ ExtractIdle
    /\ \E target_departments \in DepartmentArgs :
         \E annonces \in SeqsUpTo(LocationAnnonces, MaxRecords) :
            FilterBuilt(target_departments, annonces)

\* filter_by_location(annonces)
FilterByLocation ==
    /\ f_pc = "input"
    /\ f_out' = filter_by_location(f_annonces, f_departments)
    /\ f_args' = Args(FALSE, TRUE, NoList, NoList, NoBound, NoBound)
    /\ f_op' = "filter_by_location"
    /\ f_pc' = "done"
    /\ UNCHANGED <<f_departments, f_annonces, f_verdicts, crawlVars, normVars,
                   annuaireVars, extractVars, lateVars>>

\* apply_all_filters(annonces, filter_sector=False, filter_location=True)
ApplyLocationOnly ==
    ApplyAllFilters(Args(FALSE, TRUE, NoList, NoList, NoBound, NoBound))

NextLocation == FilterByLocation \/ ApplyLocationOnly

SpecLocation == InitLocation /\ [][NextLocation]_vars

\* text[i..j] is a whole word: word characters with none on either side
IsWord(text, i, j) ==
    /\ 1 <= i /\ i <= j /\ j <= Len(text)
    /\ \A k \in i..j : IsWordChar(text[k])
    /\ i = 1 \/ ~IsWordChar(text[i - 1])
    /\ j = Len(text) \/ ~IsWordChar(text[j + 1])

\* text holds a 5-digit postal code whose first two digits are dept
HasPostalCodeOf(dept, text) ==
    \E i \in 1..Len(text) :
        /\ IsWord(text, i, i + 4)
        /\ \A k \in i..(i + 4) : IsDigit(text[k])
        /\ <<text[i], text[i + 1]>> = dept

\* the rule of the location stage for one record
LocationRule(annonce, target_departments) ==
    \/ annonce.localisation \in {Absent, NoneValue, << >>}
    \/ \E i \in 1..Len(target_departments) :
          HasPostalCodeOf(target_departments[i], annonce.localisation)
    \/ \E i \in 1..Len(region_keywords) :
          Contains(lower(annonce.localisation), region_keywords[i])

C16_Rule ==
    f_out = SelectSeq(f_annonces, LAMBDA a : LocationRule(a, f_departments))

C16_Examples ==
    \A a \in Range(f_annonces) :
        /\ a.localisation = << >> => a \in Range(f_out)
        /\ a.localisation = LOC_PARIS_75008 /\ DEPT_75 \in Range(f_departments)
              => a \in Range(f_out)
        /\ a.localisation = LOC_MARSEILLE_13001
              /\ f_departments = <<DEPT_75, DEPT_92>>
              => a \notin Range(f_out)

Annonce(titre, description, secteur, localisation, prix) ==
    [titre |-> titre, description |-> description, secteur |-> secteur,
     entreprise |-> Absent, localisation |-> localisation, prix |-> prix]

TITRE_WEB == <<"S", "o", "c", "i", "é", "t", "é", " ", "d", "e", " ", "d",
    "é", "v", "e", "l", "o", "p", "p", "e", "m", "e", "n", "t", " ", "w",
    "e", "b">>
DESC_WEB == <<"E", "n", "t", "r", "e", "p", "r", "i", "s", "e", " ", "s",
    "p", "é", "c", "i", "a", "l", "i", "s", "é", "e", " ", "e", "n", " ",
    "d", "é", "v", "e", "l", "o", "p", "p", "e", "m", "e", "n", "t", " ",
    "w", "e", "b", " ", "e", "t", " ", "a", "p", "p", "l", "i", "c", "a",
    "t", "i", "o", "n", "s", " ", "m", "o", "b", "i", "l", "e", "s", " ",
    "a", "v", "e", "c", " ", "1", "0", " ", "d", "é", "v", "e", "l", "o",
    "p", "p", "e", "u", "r", "s">>
SECTEUR_WEB == <<"I", "n", "f", "o", "r", "m", "a", "t", "i", "q", "u", "e">>
TITRE_RESTAURANT == <<"R", "e", "s", "t", "a", "u", "r", "a", "n", "t", " ",
    "t", "r", "a", "d", "i", "t", "i", "o", "n", "n", "e", "l">>
DESC_RESTAURANT == <<"R", "e", "s", "t", "a", "u", "r", "a", "n", "t", " ",
    "g", "a", "s", "t", "r", "o", "n", "o", "m", "i", "q", "u", "e", " ",
    "a", "v", "e", "c", " ", "c", "l", "i", "e", "n", "t", "è", "l", "e",
    " ", "f", "i", "d", "è", "l", "e">>
SECTEUR_RESTAURANT == <<"R", "e", "s", "t", "a", "u", "r", "a", "t", "i",
    "o", "n">>
TITRE_GASTRONOMIQUE == <<"R", "e", "s", "t", "a", "u", "r", "a", "n", "t",
    " ", "g", "a", "s", "t", "r", "o", "n", "o", "m", "i", "q", "u", "e">>
LOC_PARIS_75015 == <<"7", "5", "0", "1", "5", " ", "P", "a", "r", "i", "s">>
PRIX_150000 == <<"1", "5", "0", "0", "0", "0">>
KW_WEB == <<"W", "e", "b">>
KW_TRADITIONNEL == <<"t", "r", "a", "d", "i", "t", "i", "o", "n", "n", "e",
    "l">>

\* tech records, in Paris and in Marseille
A_WEB ==
    Annonce(TITRE_WEB, DESC_WEB, SECTEUR_WEB, LOC_PARIS_75008, PRIX_250000)
A_WEB_MARSEILLE ==
    Annonce(TITRE_WEB, DESC_WEB, SECTEUR_WEB, LOC_MARSEILLE_13001, PRIX_250000)
\* restaurant records, in Paris and in Marseille
A_RESTAURANT ==
    Annonce(TITRE_RESTAURANT, DESC_RESTAURANT, SECTEUR_RESTAURANT,
            LOC_PARIS_75015, PRIX_150000)
A_RESTAURANT_MARSEILLE ==
    Annonce(TITRE_RESTAURANT, DESC_RESTAURANT, SECTEUR_RESTAURANT,
            LOC_MARSEILLE_13001, PRIX_150000)
A_GASTRONOMIQUE ==
    Annonce(TITRE_GASTRONOMIQUE, DESC_RESTAURANT, SECTEUR_RESTAURANT,
            LOC_PARIS_75015, PRIX_150000)

TechAnnonces == {A_WEB, A_WEB_MARSEILLE}
RestaurantAnnonces == {A_RESTAURANT, A_RESTAURANT_MARSEILLE, A_GASTRONOMIQUE}
ParisAnnonces == {A_WEB, A_RESTAURANT, A_GASTRONOMIQUE}
MarseilleAnnonces == {A_WEB_MARSEILLE, A_RESTAURANT_MARSEILLE}
TestAnnonces == TechAnnonces \cup RestaurantAnnonces

\* the arguments given to apply_all_filters: every stage asked for or not,
\* and the arguments that are given but false ([] and 0)
KeywordArgs == {NoList, <<KW_WEB>>}
ExcludeArgs == {NoList, <<KW_TRADITIONNEL>>}
MinArgs == {NoBound, Bound(200000)}
CascadeArgs ==
    {Args(fs, fl, ck, ek, mn, NoBound) :
        fs \in BOOLEAN, fl \in BOOLEAN, ck \in KeywordArgs,
        ek \in ExcludeArgs, mn \in MinArgs}
    \cup {Args(fs, fl, << >>, << >>, Bound(0), Bound(0)) :
            fs \in BOOLEAN, fl \in BOOLEAN}

InitCascade ==
    /\ Constructed(SeedPlain) /\ NormIdle /\ LateIdle /\ AnnuaireIdle /\ ExtractIdle
    /\ \E annonces \in SeqsUpTo(TestAnnonces, MaxRecords) :
         FilterBuilt(NoList, annonces)

\* apply_all_filters(annonces, filter_sector, filter_location,
\*                   custom_keywords, exclude_keywords, min_price, max_price)
ApplyCascade == \E args \in CascadeArgs : ApplyAllFilters(args)

\* filter_by_sector(annonces)
FilterBySector ==
    /\ f_pc = "input"
    /\ f_out' = filter_by_sector(f_annonces)
    /\ f_args' = Args(TRUE, FALSE, NoList, NoList, NoBound, NoBound)
    /\ f_op' = "filter_by_sector"
    /\ f_pc' = "done"
    /\ UNCHANGED <<f_departments, f_annonces, f_verdicts, crawlVars, normVars,
                   annuaireVars, extractVars, lateVars>>

NextCascade == ApplyCascade \/ FilterBySector

SpecCascade == InitCascade /\ [][NextCascade]_vars

\* the cascade with its stages in the given order, each stage on the
\* survivors of the one before; a list is given by the positions of its
\* records in the input
RECURSIVE CascadeIn(_, _, _)
CascadeIn(order, positions, verdicts) ==
    IF Len(order) = 0 THEN positions
    ELSE CascadeIn(Tail(order),
                   SelectSeq(positions, LAMBDA i : verdicts[i][Head(order)]),
                   verdicts)

StageOrders == Orders(Stages)

\* the records of annonces at the given positions
Pick(annonces, positions) ==
    [k \in 1..Len(positions) |-> annonces[positions[k]]]

\* C13: the result of apply_all_filters is the list of the input records
\* that pass every enabled stage, in input order; it is the result of the
\* cascade for every order of the five stages.
C13_CascadeIsIntersection ==
    f_pc = "done" /\ f_op = "apply_all_filters" =>
        LET all == [i \in 1..Len(f_annonces) |-> i]
            passing == SelectSeq(all, LAMBDA i :
                                      \A s \in Stages : f_verdicts[i][s])
        IN /\ f_out = Pick(f_annonces, passing)
           /\ \A order \in StageOrders :
                 Pick(f_annonces, CascadeIn(order, all, f_verdicts)) = f_out

\* the sector stage rejects the first record, the second passes both stages
C13_Witness ==
    /\ f_pc = "done" /\ f_op = "apply_all_filters"
    /\ f_args.filter_sector /\ f_args.filter_location
    /\ f_annonces = <<A_GASTRONOMIQUE, A_WEB>>
    /\ f_out = <<A_WEB>>

\* C17: with the default criteria the sector + location cascade returns
\* exactly the tech records located in Paris.
C17_TechParisOnly ==
    /\ f_pc = "done" /\ f_op = "apply_all_filters"
    /\ f_args = Args(TRUE, TRUE, NoList, NoList, NoBound, NoBound)
    => f_out = SelectSeq(f_annonces,
                         LAMBDA a : a \in TechAnnonces /\ a \in ParisAnnonces)


(***************************************************************************)
(* AnnonceScraper (src/aj_scraper/scraper_annonces.py).  An element of a   *)
(* page (a <tr>, or a div / article / li with a listing class) is the list *)
(* of its text-bearing descendants in document order.  Of the keys of an   *)
(* extracted record the model keeps titre, description, reference and      *)
(* url_details.                                                            *)
(***************************************************************************)
MaxItems == 2        \* data rows and listing blocks on one page

\* a descendant of an element: its tag, its class and href attributes
\* (Absent when the tag does not have the attribute) and its text
Node(tag, class, href, text) ==
    [tag |-> tag, class |-> class, href |-> href, text |-> text]

\* element.find(...): the first of the positions of the descendants that
\* match, 0 for None
Find(found) ==
    IF found = {} THEN 0 ELSE CHOOSE i \in found : \A j \in found : i <= j

IsTitreTag(node) == node.tag \in {"h1", "h2", "h3", "h4", "strong", "b"}
IsLink(node) == node.tag = "a"
IsLinkWithHref(node) == node.tag = "a" /\ node.href # Absent
IsDesc(node) ==
    /\ node.tag \in {"p", "div"}
    /\ node.class # Absent /\ node.class # << >>
    /\ Contains(lower(node.class), <<"d", "e", "s", "c">>)

FindTitre(element) ==
    Find({i \in 1..Len(element) : IsTitreTag(element[i])})
FindLink(element) ==
    Find({i \in 1..Len(element) : IsLink(element[i])})
FindLinkWithHref(element) ==
    Find({i \in 1..Len(element) : IsLinkWithHref(element[i])})
FindDesc(element) ==
    Find({i \in 1..Len(element) : IsDesc(element[i])})

\* \s
SpaceChars == {" ", "\t", "\n"}
IsSpace(c) == c \in SpaceChars

\* str.strip()
strip(s) ==
    LET solid == {i \in 1..Len(s) : ~IsSpace(s[i])}
    IN IF solid = {} THEN << >>
       ELSE SubSeq(s, CHOOSE i \in solid : \A j \in solid : i <= j,
                      CHOOSE i \in solid : \A j \in solid : j <= i)

\* element.get_text()
RECURSIVE get_text(_)
get_text(element) ==
    IF element = << >> THEN << >>
    ELSE element[1].text \o get_text(Tail(element))

\* element.get_text(strip=True)
RECURSIVE get_text_strip(_)
get_text_strip(element) ==
    IF element = << >> THEN << >>
    ELSE strip(element[1].text) \o get_text_strip(Tail(element))

\* s[:n]
Slice(s, n) == SubSeq(s, 1, IF Len(s) < n THEN Len(s) ELSE n)

\* urljoin(page_url, href), for a base without a path and the href of an
\* absolute path
urljoin(page_url, href) == page_url \o href

\* [A-Z0-9\-] under re.IGNORECASE
RefChars ==
    {DIGITS[i] : i \in 1..10} \cup {"-"}
        \cup {UPPER[i] : i \in 1..26} \cup {LOWER[i] : i \in 1..26}

\* the end of the longest run of characters of the class, from i
RunEnd(text, i, chars) ==
    CHOOSE j \in i..(Len(text) + 1) :
        /\ j = Len(text) + 1 \/ text[j] \notin chars
        /\ \A k \in i..(j - 1) : text[k] \in chars

\* R[ée]f[ée]rence under re.IGNORECASE, at position i
RefWordAt(text, i) ==
    /\ i + 8 <= Len(text)
    /\ text[i] \in {"R", "r"}
    /\ LET w == lower(SubSeq(text, i, i + 8))
       IN /\ w[1] = "r" /\ w[2] \in {"e", "é"}
          /\ w[3] = "f" /\ w[4] \in {"e", "é"}
          /\ SubSeq(w, 5, 9) = <<"r", "e", "n", "c", "e">>

\* \s*:?\s*([A-Z0-9\-]+) after the word at position i: the group, empty
\* when there is no match
RefGroupAt(text, i) ==
    LET a == RunEnd(text, i + 9, SpaceChars)
        b == IF a <= Len(text) /\ text[a] = ":" THEN a + 1 ELSE a
        c == RunEnd(text, b, SpaceChars)
        d == RunEnd(text, c, RefChars)
    IN SubSeq(text, c, d - 1)

\* re.search of the reference pattern: group(1) of the first match, or None
ref_search(text) ==
    LET starts == {i \in 1..Len(text) :
                       RefWordAt(text, i) /\ RefGroupAt(text, i) # << >>}
    IN IF starts = {} THEN NoneValue
       ELSE RefGroupAt(text, CHOOSE i \in starts : \A j \in starts : i <= j)

\* link['href'] raises KeyError: the title is taken from a link that has
\* no href
KeyError(element) ==
    /\ FindTitre(element) = 0
    /\ FindLink(element) # 0
    /\ element[FindLink(element)].href = Absent

\* the dict _extract_annonce_data fills in when nothing is raised
annonce_data(element, page_url) ==
    LET titre == FindTitre(element)
        link == FindLink(element)
        desc == FindDesc(element)
        href == FindLinkWithHref(element)
        from_link == titre = 0 /\ link # 0
    IN [titre |-> IF titre # 0 THEN strip(element[titre].text)
                  ELSE IF link # 0 THEN strip(element[link].text)
                  ELSE NoneValue,
        description |-> IF desc # 0 THEN strip(element[desc].text)
                        ELSE Slice(get_text_strip(element), 500),
        reference |-> ref_search(get_text(element)),
        url_details |-> IF from_link
                        THEN urljoin(page_url, element[link].href)
                        ELSE IF href # 0
                        THEN urljoin(page_url, element[href].href)
                        ELSE NoneValue]

NoAnnonce ==
    [titre |-> NoneValue, description |-> NoneValue,
     reference |-> NoneValue, url_details |-> NoneValue]

\* an exception raised while one item is extracted, were it let through
OnItemError_propagate == "raise"

\* except Exception in _extract_annonce_data: the item yields None
OnItemError == "none"

\* _extract_annonce_data: a record, None, or an exception leaving it
extract_annonce_data(element, page_url) ==
    IF KeyError(element)
    THEN [kind |-> OnItemError, annonce |-> NoAnnonce]
    ELSE LET annonce == annonce_data(element, page_url)
         IN IF Truthy(annonce.titre)
            THEN [kind |-> "record", annonce |-> annonce]
            ELSE [kind |-> "none", annonce |-> NoAnnonce]

\* a gate that also lets a title of 5 characters through
is_valid_annonce_loose(annonce) ==
    /\ Truthy(annonce.titre)
    /\ Len(annonce.titre) >= 5
    /\ Truthy(annonce.description)
    /\ Len(annonce.description) > 20

\* _is_valid_annonce
is_valid_annonce(annonce) ==
    /\ Truthy(annonce.titre)
    /\ Len(annonce.titre) > 5
    /\ Truthy(annonce.description)
    /\ Len(annonce.description) > 20

\* s[1:]
From1(s) == IF s = << >> THEN << >> ELSE Tail(s)

\* table.find_all('tr')[1:] of every table, in the order of the tables
RECURSIVE Rows(_)
Rows(tables) ==
    IF tables = << >> THEN << >>
    ELSE From1(tables[1]) \o Rows(Tail(tables))

\* soup.find_all('tr')
RECURSIVE AllTr(_)
AllTr(tables) ==
    IF tables = << >> THEN << >>
    ELSE tables[1] \o AllTr(Tail(tables))

\* for item in items: the records appended (with the gate of the heuristic
\* mode when strict), and whether an exception left the loop
Loop(items, page_url, strict) ==
    LET outcomes == [i \in 1..Len(items) |->
                         extract_annonce_data(items[i], page_url)]
        kept == SelectSeq(outcomes, LAMBDA o :
                    /\ o.kind = "record"
                    /\ strict => is_valid_annonce(o.annonce))
    IN [raised |-> \E i \in 1..Len(items) : outcomes[i].kind = "raise",
        annonces |-> [k \in 1..Len(kept) |-> kept[k].annonce]]

Structures == {"has_table", "container_class", "item_tag"}

\* _extract_with_structure
extract_with_structure(tables, blocks, page_url, structure) ==
    LET items == IF structure = "has_table" THEN From1(AllTr(tables))
                 ELSE blocks
    IN Loop(items, page_url, FALSE)

\* the block scan running whatever the tables gave
BlocksScanned_always(annonces) == TRUE

\* if not annonces:
BlocksScanned(annonces) == annonces = << >>

\* _extract_with_heuristics
extract_with_heuristics(tables, blocks, page_url) ==
    LET rows == Loop(Rows(tables), page_url, TRUE)
        containers == Loop(blocks, page_url, TRUE)
    IN IF rows.raised THEN rows
       ELSE IF BlocksScanned(rows.annonces)
       THEN [raised |-> containers.raised,
             annonces |-> rows.annonces \o containers.annonces]
       ELSE rows

\* the return of extract_annonces_from_page around either extraction
Returned(extraction) ==
    IF extraction.raised THEN << >> ELSE extraction.annonces

\* the texts of the generated elements
TITRE_6 == <<"G", "a", "r", "a", "g", "e">>
TITRE_5_PADDED == <<" ", "H", "o", "t", "e", "l", " ">>
DESC_21 == <<"V", "e", "n", "t", "e", " ", "f", "o", "n", "d", "s", " ", "c",
    "o", "m", "m", "e", "r", "c", "e", ".">>
DESC_20 == <<"V", "e", "n", "t", "e", " ", "f", "o", "n", "d", "s", " ", "c",
    "o", "m", "m", "e", "r", "c", "e">>
TEXT_CESSION == <<"C", "e", "s", "s", "i", "o", "n", " ">>
REF_LABEL == <<"R", "é", "f", "é", "r", "e", "n", "c", "e", ":", " ", "R">>
CLASS_DESC == <<"d", "e", "s", "c", "r", "i", "p", "t", "i", "o", "n">>
HREF_LOT == <<"/", "l", "o", "t">>
TH_TITRE == <<"T", "i", "t", "r", "e">>
TH_DESCRIPTION == <<"D", "e", "s", "c", "r", "i", "p", "t", "i", "o", "n">>

\* the reference written in the n-th generated element
RefNode(n) == Node("span", Absent, Absent, REF_LABEL \o <<DIGITS[n + 1]>>)

Shapes ==
    {"valid", "short_title", "short_desc", "no_href", "linked", "untitled"}

\* the n-th element of a page, of the given shape
Element(shape, n) ==
    CASE shape = "valid" ->
             <<Node("h3", Absent, Absent, TITRE_6),
               Node("p", CLASS_DESC, Absent, DESC_21), RefNode(n)>>
      [] shape = "short_title" ->
             <<Node("h3", Absent, Absent, TITRE_5_PADDED),
               Node("p", CLASS_DESC, Absent, DESC_21), RefNode(n)>>
      [] shape = "short_desc" ->
             <<Node("h3", Absent, Absent, TITRE_6),
               Node("p", CLASS_DESC, Absent, DESC_20), RefNode(n)>>
      [] shape = "no_href" ->
             <<Node("a", Absent, Absent, TITRE_6),
               Node("p", CLASS_DESC, Absent, DESC_21), RefNode(n)>>
      [] shape = "linked" ->
             <<Node("a", Absent, HREF_LOT, TITRE_6),
               Node("span", Absent, Absent, TEXT_CESSION), RefNode(n)>>
      [] shape = "untitled" ->
             <<Node("span", Absent, Absent, DESC_21), RefNode(n)>>

\* the header row of a table
HEADER ==
    <<Node("th", Absent, Absent, TH_TITRE),
      Node("th", Absent, Absent, TH_DESCRIPTION)>>

Places == {"table1", "table2", "block"}

\* the elements put at one place of the page, in page order
Placed(items, place) ==
    LET at == SelectSeq([i \in 1..Len(items) |-> i],
                        LAMBDA i : items[i].place = place)
    IN [k \in 1..Len(at) |-> Element(items[at[k]].shape, at[k])]

\* an AnnonceScraper about to extract a page with the given items
PageBuilt(items) ==
    /\ e_pc = "page"
    /\ e_tables = [k \in 1..Len(SelectSeq(<<"table1", "table2">>,
                           LAMBDA p : Placed(items, p) # << >>)) |->
                       <<HEADER>> \o Placed(items,
                           SelectSeq(<<"table1", "table2">>,
                               LAMBDA p : Placed(items, p) # << >>)[k])]
    /\ e_blocks = Placed(items, "block")
    /\ e_mode = "none"
    /\ e_out = << >>

InitExtract ==
    /\ Constructed(SeedPlain) /\ NormIdle /\ LateIdle /\ AnnuaireIdle /\ FilterIdle
    /\ \E items \in SeqsUpTo([shape : Shapes, place : Places], MaxItems) :
           PageBuilt(items)

\* extract_annonces_from_page(url, structure) with a structure
ExtractWithStructure ==
    /\ e_pc = "page"
    /\ \E structure \in Structures :
          /\ e_mode' = structure
          /\ e_out' = Returned(extract_with_structure(
                                   e_tables, e_blocks, SeedPlain, structure))
    /\ e_pc' = "done"
    /\ UNCHANGED <<e_tables, e_blocks, crawlVars, normVars, annuaireVars,
                   filterVars, lateVars>>

\* extract_annonces_from_page(url) without a structure
ExtractWithHeuristics ==
    /\ e_pc = "page"
    /\ e_mode' = "heuristics"
    /\ e_out' = Returned(extract_with_heuristics(e_tables, e_blocks,
                                                 SeedPlain))
    /\ e_pc' = "done"
    /\ UNCHANGED <<e_tables, e_blocks, crawlVars, normVars, annuaireVars,
                   filterVars, lateVars>>

\* extract_annonces_from_page when the request or the parsing raises
ExtractPageError ==
    /\ e_pc = "page"
    /\ e_mode' = "error"
    /\ e_out' = << >>
    /\ e_pc' = "done"
    /\ UNCHANGED <<e_tables, e_blocks, crawlVars, normVars, annuaireVars,
                   filterVars, lateVars>>

NextExtract ==
    \/ ExtractWithStructure
    \/ ExtractWithHeuristics
    \/ ExtractPageError

SpecExtract == InitExtract /\ [][NextExtract]_vars

\* the title and the description the extraction gives an element
TitreOf(element) == annonce_data(element, SeedPlain).titre
DescriptionOf(element) == annonce_data(element, SeedPlain).description

\* the list returned has the record of this element
EmittedFrom(element) ==
    LET reference == ref_search(get_text(element))
    IN \E i \in 1..Len(e_out) : e_out[i].reference = reference

\* the element has a title of more than 5 characters and a description of
\* more than 20
LongEnough(element) ==
    LET annonce == annonce_data(element, SeedPlain)
    IN /\ annonce.titre # NoneValue
       /\ Len(annonce.titre) > 5
       /\ annonce.description # NoneValue
       /\ Len(annonce.description) > 20

\* the records of a list of elements, in its order
RecordsOf(elements) ==
    [k \in 1..Len(elements) |-> annonce_data(elements[k], SeedPlain)]

\* the rows of the tables without their headers that are extracted without
\* a failure and are long enough
ValidRows ==
    SelectSeq(Rows(e_tables), LAMBDA el : ~KeyError(el) /\ LongEnough(el))

\* the items the heuristic mode looks at: the rows of every table, and the
\* blocks when no row gave a record
Candidates == Rows(e_tables) \o (IF ValidRows = << >> THEN e_blocks ELSE << >>)

\* C18: in heuristic mode a candidate item whose extraction does not fail is
\* emitted as a record iff its title is longer than 5 characters and its
\* description is longer than 20 characters.
C18_StrictGate ==
    e_pc = "done" /\ e_mode = "heuristics" =>
        LET candidates == Candidates
        IN \A k \in 1..Len(candidates) :
               ~KeyError(candidates[k]) =>
                   (EmittedFrom(candidates[k]) <=> LongEnough(candidates[k]))

\* a row with a title of 5 characters is rejected next to a row with a
\* title of 6 characters that is emitted
C18_Witness ==
    /\ e_pc = "done" /\ e_mode = "heuristics"
    /\ LET candidates == Candidates
       IN \E j, k \in 1..Len(candidates) :
             /\ Len(TitreOf(candidates[j])) = 5
             /\ Len(DescriptionOf(candidates[j])) > 20
             /\ ~EmittedFrom(candidates[j])
             /\ Len(TitreOf(candidates[k])) = 6
             /\ Len(DescriptionOf(candidates[k])) > 20
             /\ EmittedFrom(candidates[k])

\* C19: in heuristic mode, when at least one row of some table is valid the
\* result is the records of the valid rows of every table, in page order,
\* and nothing else; otherwise every record of the result comes from a
\* block.
C19_TablesBeforeBlocks ==
    e_pc = "done" /\ e_mode = "heuristics" =>
        LET rows == ValidRows
        IN IF rows # << >>
           THEN e_out = RecordsOf(rows)
              ELSE \A i \in 1..Len(e_out) :
                    \E k \in 1..Len(e_blocks) :
                        e_out[i] = annonce_data(e_blocks[k], SeedPlain)

\* a table has a valid row and the page has a valid block: only the record
\* of the row is returned
C19_Witness ==
    /\ e_pc = "done" /\ e_mode = "heuristics"
    /\ Len(e_tables) = 1 /\ Len(e_blocks) = 1
    /\ LongEnough(e_blocks[1]) /\ ~EmittedFrom(e_blocks[1])
    /\ e_out = <<annonce_data(e_tables[1][2], SeedPlain)>>

\* the items of the page the extraction goes through, in page order
Scanned ==
    IF e_mode = "heuristics" THEN Candidates
    ELSE IF e_mode = "has_table" THEN From1(AllTr(e_tables))
    ELSE e_blocks

\* C20: in both modes the result of a page is the records of the items other
\* than the failing ones (every titled one with a structure, every valid one
\* without), in page order: a failing item is skipped and aborts nothing.
C20_ItemFailureSkipped ==
    e_pc = "done" /\ e_mode \in Structures \cup {"heuristics"} =>
        e_out = RecordsOf(SelectSeq(Scanned, LAMBDA el :
                    /\ ~KeyError(el)
                    /\ Truthy(TitreOf(el))
                    /\ e_mode = "heuristics" => LongEnough(el)))

\* with a structure, a row that fails is followed by a row that is returned
C20_Witness ==
    /\ e_pc = "done" /\ e_mode = "has_table"
    /\ Len(e_tables) = 1 /\ Len(e_tables[1]) = 3
    /\ KeyError(e_tables[1][2])
    /\ e_out = <<annonce_data(e_tables[1][3], SeedPlain)>>


(***************************************************************************)
(* The crawler again: configuration, termination, the tree and its         *)
(* statistics.                                                             *)
(***************************************************************************)
SeedEmpty == <<"">>              \* "": no scheme and nothing after it
SeedNoScheme == <<"", "h">>      \* "h": no scheme, so an empty netloc
ConfigErrorSeeds == {SeedEmpty, SeedNoScheme}

\* QuadraticLabsScraper(base_url) for every seed, the two above included
InitConfig ==
    /\ \E seed \in Seeds \cup ConfigErrorSeeds : Constructed(seed)
    /\ NormIdle /\ RestIdle

SpecConfig == InitConfig /\ [][Next]_vars

\* C24: a crawl whose seed URL is empty or whose domain scope is empty is
\* aborted before any fetch: it visits nothing, calls get_links_from_page
\* for no URL and does not return a list.
C24_ConfigErrorAborts ==
    base_url = SeedEmpty \/ domain = << >> =>
        visited_urls = {} /\ fetch_log = << >> /\ pc # "done"

\* scrape runs on: no step of the loop that stays possible is put off for
\* ever, and a fetch ends (session.get has a timeout), by raising at the
\* latest
SpecFair ==
    /\ Init /\ [][Next]_vars
    /\ WF_vars(ScrapeBegin) /\ WF_vars(LoopSkip)
    /\ WF_vars(FetchFail) /\ WF_vars(LoopExit)

\* C28: the scrape loop terminates; when it has stopped the queue is empty
\* or exactly max_pages URLs have been visited; at no point have more than
\* max_pages pages been fetched.
C28_TerminatesWithinCap ==
    /\ <>(pc = "done")
    /\ [](pc = "done" =>
            to_visit = << >> \/ Cardinality(visited_urls) = max_pages)
    /\ [](Len(fetch_log) <= max_pages)

\* the loop was stopped by the cap, after a failed fetch, with URLs left in
\* the queue
C28_Witness ==
    /\ pc = "done"
    /\ failed # {}
    /\ to_visit # << >>
    /\ Cardinality(visited_urls) = max_pages

\* following the parent links from u reaches the seed in at most n steps
RECURSIVE ClimbsToSeed(_, _)
ClimbsToSeed(u, n) ==
    \/ u = base_url
    \/ /\ n > 0
       /\ u \in DOMAIN url_hierarchy
       /\ url_hierarchy[u].parent # None
       /\ ClimbsToSeed(url_hierarchy[u].parent, n - 1)

RECURSIVE SumOf(_)
SumOf(counts) ==
    IF DOMAIN counts = {} THEN 0
    ELSE LET d == CHOOSE x \in DOMAIN counts : TRUE
         IN counts[d] + SumOf([x \in DOMAIN counts \ {d} |-> counts[x]])

\* QuadraticLabsScraper.get_tree_stats
get_tree_stats ==
    LET depths == {url_depth[u] : u \in DOMAIN url_depth}
    IN [total_pages |-> Cardinality(found_urls),
        max_depth |-> IF depths = {} THEN 0 ELSE SetMax(depths),
        pages_by_depth |->
            [d \in depths |->
                Cardinality({u \in DOMAIN url_depth : url_depth[u] = d})]]

\* C30: after scrape the counts of pages_by_depth sum to total_pages, every
\* discovered URL has a depth and every discovered URL has a hierarchy
\* entry.
C30_StatsConsistent ==
    pc = "done" =>
        /\ SumOf(get_tree_stats.pages_by_depth) = get_tree_stats.total_pages
        /\ found_urls \subseteq DOMAIN url_depth
        /\ found_urls \subseteq DOMAIN url_hierarchy

(***************************************************************************)
(* SiteAnalyzer (src/aj_scraper/scraper_sites.py).  A site is its base     *)
(* URL, what session.get answers for it, and the <a href> elements of its  *)
(* home page: nav says whether the anchor stands inside an element whose   *)
(* class holds "menu" or "nav".  URLs are written as in the crawler: a     *)
(* scheme token, then characters.                                          *)
(***************************************************************************)
MaxSites == 2        \* sites given to analyze_multiple_sites
MaxAnchors == 2      \* anchors of a home page
MaxPerSite == 2      \* max_pages_per_site
MaxCrawlLinks == 2   \* anchors of a crawled page

\* config.ANNONCE_KEYWORDS
ANNONCE_KEYWORDS == <<
    <<"v", "e", "n", "t", "e">>,
    <<"c", "e", "s", "s", "i", "o", "n">>,
    <<"l", "i", "q", "u", "i", "d", "a", "t", "i", "o", "n">>,
    <<"a", "n", "n", "o", "n", "c", "e">>,
    <<"o", "f", "f", "r", "e">>,
    <<"e", "n", "t", "r", "e", "p", "r", "i", "s", "e", " ", "à", " ", "c",
        "é", "d", "e", "r">>,
    <<"f", "o", "n", "d", "s", " ", "d", "e", " ", "c", "o", "m", "m", "e",
        "r", "c", "e">>,
    <<"a", "c", "t", "i", "f">>,
    <<"e", "n", "c", "h", "è", "r", "e">>
>>

\* analyze_site: self._crawl_site(base_url, max_pages=20)
CRAWL_MAX_PAGES == 20

TEXT_VENTES == <<"V", "e", "n", "t", "e", "s">>
TEXT_CONTACT == <<"C", "o", "n", "t", "a", "c", "t">>
TEXT_OFFRES == <<"N", "o", "s", " ", "o", "f", "f", "r", "e", "s">>
TEXT_VOIR == <<"V", "o", "i", "r">>
TEXT_ANNONCES == <<"A", "n", "n", "o", "n", "c", "e", "s">>
HREF_VENTES == <<"/", "v", "e", "n", "t", "e", "s">>
HREF_CONTACT == <<"/", "c", "o", "n", "t", "a", "c", "t">>
HREF_OFFRES == <<"/", "o", "f", "f", "r", "e", "s">>
HREF_CESSIONS == <<"/", "c", "e", "s", "s", "i", "o", "n", "s">>
TAG_TR == <<"t", "r">>
TAG_LI == <<"l", "i">>
TAG_DIV == <<"d", "i", "v">>
CLASS_CARD == <<"c", "a", "r", "d">>
HREF_BRACKET == Http \o <<"[">>           \* href="http://["
HREF_ELSEWHERE == Http \o <<"x", "/", "a">>
HREF_A == <<"/", "a">>
HREF_B == <<"/", "b">>
ERROR_TEXT == <<"RequestException">>    \* str(e)

Anchor(nav, text, href) == [nav |-> nav, text |-> text, href |-> href]

Anchors == {
    Anchor(TRUE, TEXT_VENTES, HREF_VENTES),
    Anchor(TRUE, TEXT_CONTACT, HREF_CONTACT),
    Anchor(FALSE, TEXT_OFFRES, HREF_OFFRES),
    Anchor(FALSE, TEXT_VOIR, HREF_CESSIONS),
    Anchor(TRUE, TEXT_ANNONCES, HREF_BRACKET)}

Site(host, status, anchors) ==
    [base_url |-> Http \o <<host>>, status |-> status, anchors |-> anchors]

\* any(keyword in text for keyword in ANNONCE_KEYWORDS)
HasKeyword(text) == AnyIn(ANNONCE_KEYWORDS, text)

\* urljoin raises ValueError when the netloc of the href opens a bracket it
\* does not close (urllib.parse.urlsplit, "Invalid IPv6 URL")
UrljoinRaises(href) ==
    /\ Head(href) = "http:"
    /\ "[" \in Range(urlparse(href).netloc)
    /\ "]" \notin Range(urlparse(href).netloc)

\* urljoin(base_url, link_href) for an href that is an absolute URL or an
\* absolute path, base_url having no path
full_url(site_url, href) ==
    IF Head(href) = "http:" THEN href ELSE urljoin(site_url, href)

\* the anchors _find_annonce_links_in_nav keeps
NavMatches(anchors) ==
    {i \in DOMAIN anchors :
        anchors[i].nav /\ HasKeyword(lower(anchors[i].text))}

\* the anchors _find_annonce_links_in_content keeps
ContentMatches(anchors) ==
    {i \in DOMAIN anchors :
        \/ HasKeyword(lower(anchors[i].text))
        \/ HasKeyword(lower(anchors[i].href))}

find_annonce_links_in_nav(anchors, site_url) ==
    {full_url(site_url, anchors[i].href) : i \in NavMatches(anchors)}

find_annonce_links_in_content(anchors, site_url) ==
    {full_url(site_url, anchors[i].href) : i \in ContentMatches(anchors)}

NavRaises(anchors) ==
    \E i \in NavMatches(anchors) : UrljoinRaises(anchors[i].href)

ContentRaises(anchors) ==
    \E i \in ContentMatches(anchors) : UrljoinRaises(anchors[i].href)

\* the all-anchors scan made whatever the navigation scan found
ContentScanned_always(annonce_links) == TRUE

\* analyze_site, strategy 2: if not annonce_links
ContentScanned(annonce_links) == annonce_links = {}

\* analyze_site, strategy 3: if not annonce_links
CrawlRuns(annonce_links) == annonce_links = {}

\* analyze_site from the parsed home page to the crawl: the links of the two
\* scans, the scans made, and whether a urljoin of theirs raised
Scans(anchors, site_url) ==
    LET nav     == find_annonce_links_in_nav(anchors, site_url)
        content == ContentScanned(nav)
    IN  [links  |-> IF content
                    THEN find_annonce_links_in_content(anchors, site_url)
                    ELSE nav,
         scans  |-> IF content THEN <<"nav", "content">> ELSE <<"nav">>,
         raises |-> \/ NavRaises(anchors)
                    \/ content /\ ContentRaises(anchors)]

\* _page_contains_annonces
page_contains_annonces(keyword_count) == keyword_count >= 3

Patterns == {"table", "list", "cards"}

\* what the fetch of the sampled page gives _detect_structure: an error, or
\* a page showing some of the patterns
Samples ==
    {[ok |-> FALSE, patterns |-> {}]}
        \cup {[ok |-> TRUE, patterns |-> p] : p \in SUBSET Patterns}

\* _detect_structure past its fetch; of the keys of the descriptor the
\* pagination flag is left out
detect_structure(url, patterns) ==
    LET structure ==
            [url |-> url, has_list |-> FALSE, has_table |-> FALSE,
             has_cards |-> FALSE, container_class |-> NoneValue,
             item_tag |-> NoneValue]
        tables == IF "table" \in patterns
                  THEN [structure EXCEPT !.has_table = TRUE,
                                         !.item_tag = TAG_TR]
                  ELSE structure
        lists  == IF "list" \in patterns
                  THEN [tables EXCEPT !.has_list = TRUE, !.item_tag = TAG_LI]
                  ELSE tables
        cards  == IF "cards" \in patterns
                  THEN [lists EXCEPT !.has_cards = TRUE,
                                     !.item_tag = TAG_DIV,
                                     !.container_class = CLASS_CARD]
                  ELSE lists
    IN  cards

\* structure_detected: None as << >>, a descriptor as <<descriptor>>
StructureDetected(url, sample) ==
    IF sample.ok THEN <<detect_structure(url, sample.patterns)>> ELSE << >>

\* _extract_with_structure: the branch that finds the items
StructureKind(structure) ==
    IF structure.has_table THEN "has_table"
    ELSE IF structure.container_class # NoneValue THEN "container_class"
    ELSE "item_tag"

\* analyze_site: result as first built
NewResult(site_url) ==
    [base_url |-> site_url, accessible |-> FALSE, pages_annonces |-> << >>,
     structure_detected |-> << >>, error |-> NoneValue]

\* analyze_site once annonce_links is known: listed is list(annonce_links)
Result(site_url, listed, sample) ==
    IF listed = << >>
    THEN [NewResult(site_url) EXCEPT !.accessible = TRUE]
    ELSE [NewResult(site_url) EXCEPT
            !.accessible = TRUE,
            !.pages_annonces = listed,
            !.structure_detected = StructureDetected(listed[1], sample)]

\* the site analyze_multiple_sites is at
SiteNow == s_sites[Len(s_results) + 1]

AtSite == s_pc = "batch" /\ Len(s_results) < Len(s_sites)

SiteAnalyzerBuilt(sites, max_pages_per_site) ==
    /\ s_pc = "batch"
    /\ s_max = max_pages_per_site
    /\ s_sites = sites
    /\ s_results = << >>
    /\ s_gets = << >>
    /\ s_scans = << >>
    /\ s_visited = {}
    /\ s_to_visit = << >>
    /\ s_found = {}

\* analyze_site: session.get(base_url) raises a RequestException
AnalyzeSiteDown ==
    /\ AtSite
    /\ SiteNow.status = "RequestException"
    /\ s_results' = Append(s_results,
            [NewResult(SiteNow.base_url) EXCEPT !.error = ERROR_TEXT])
    /\ s_gets' = <<SiteNow.base_url>>
    /\ s_scans' = << >>
    /\ UNCHANGED <<s_pc, s_max, s_sites, s_visited, s_to_visit, s_found>>
    /\ UNCHANGED <<crawlVars, normVars, annuaireVars, filterVars,
                   extractVars, pipeVars>>

\* analyze_site: a urljoin of a scan raises ValueError, which neither
\* analyze_site nor analyze_multiple_sites catches
AnalyzeSiteRaise ==
    /\ AtSite
    /\ SiteNow.status = "ok"
    /\ LET scan == Scans(SiteNow.anchors, SiteNow.base_url)
       IN  /\ scan.raises
           /\ s_scans' = IF NavRaises(SiteNow.anchors)
                         THEN <<"nav">> ELSE scan.scans
    /\ s_gets' = <<SiteNow.base_url>>
    /\ s_pc' = "raised"
    /\ UNCHANGED <<s_max, s_sites, s_results, s_visited, s_to_visit, s_found>>
    /\ UNCHANGED <<crawlVars, normVars, annuaireVars, filterVars,
                   extractVars, pipeVars>>

\* analyze_site: a scan of the home page finds links
AnalyzeSiteLinks ==
    /\ AtSite
    /\ SiteNow.status = "ok"
    /\ LET scan == Scans(SiteNow.anchors, SiteNow.base_url)
       IN  /\ ~scan.raises
           /\ ~CrawlRuns(scan.links)
           /\ \E listed \in Orders(scan.links), sample \in Samples :
                 /\ s_results' = Append(s_results,
                        Result(SiteNow.base_url, listed, sample))
                 /\ s_gets' = <<SiteNow.base_url, listed[1]>>
           /\ s_scans' = scan.scans
    /\ UNCHANGED <<s_pc, s_max, s_sites, s_visited, s_to_visit, s_found>>
    /\ UNCHANGED <<crawlVars, normVars, annuaireVars, filterVars,
                   extractVars, pipeVars>>

\* analyze_site: both scans are empty, _crawl_site starts
AnalyzeSiteCrawl ==
    /\ AtSite
    /\ SiteNow.status = "ok"
    /\ LET scan == Scans(SiteNow.anchors, SiteNow.base_url)
       IN  /\ ~scan.raises
           /\ CrawlRuns(scan.links)
           /\ s_scans' = Append(scan.scans, "crawl")
    /\ s_gets' = <<SiteNow.base_url>>
    /\ s_visited' = {}
    /\ s_to_visit' = <<SiteNow.base_url>>
    /\ s_found' = {}
    /\ s_pc' = "crawl"
    /\ UNCHANGED <<s_max, s_sites, s_results>>
    /\ UNCHANGED <<crawlVars, normVars, annuaireVars, filterVars,
                   extractVars, pipeVars>>

\* _crawl_site: while to_visit and len(visited) < max_pages
CrawlCond(max) == s_to_visit # << >> /\ Cardinality(s_visited) < max

\* the for loop over the anchors of a crawled page
RECURSIVE Enqueue(_, _, _, _, _)
Enqueue(queue, hrefs, site_url, dom, visited) ==
    IF hrefs = << >> THEN queue
    ELSE LET link == full_url(site_url, Head(hrefs))
             keep == /\ urlparse(link).netloc = dom
                     /\ link \notin visited
                     /\ link \notin Range(queue)
         IN  Enqueue(IF keep THEN Append(queue, link) ELSE queue,
                     Tail(hrefs), site_url, dom, visited)

CrawlHrefs == {HREF_A, HREF_B, HREF_ELSEWHERE}

\* the anchors a crawled page can have
CrawledPages == SeqsUpTo(CrawlHrefs, MaxCrawlLinks)

\* one iteration of _crawl_site whose fetch succeeds.  No URL enters
\* to_visit twice, so the popped URL is never a visited one.
CrawlVisitOk ==
    /\ s_pc = "crawl"
    /\ CrawlCond(CRAWL_MAX_PAGES)
    /\ Head(s_to_visit) \notin s_visited
    /\ \E keyword_count \in {2, 3}, hrefs \in CrawledPages :
          LET url == Head(s_to_visit)
          IN  /\ s_visited' = s_visited \cup {url}
              /\ s_gets' = Append(s_gets, url)
              /\ s_found' = IF page_contains_annonces(keyword_count)
                            THEN s_found \cup {url} ELSE s_found
              /\ s_to_visit' = Enqueue(Tail(s_to_visit), hrefs,
                                       SiteNow.base_url,
                                       urlparse(SiteNow.base_url).netloc,
                                       s_visited \cup {url})
    /\ UNCHANGED <<s_pc, s_max, s_sites, s_results, s_scans>>
    /\ UNCHANGED <<crawlVars, normVars, annuaireVars, filterVars,
                   extractVars, pipeVars>>

\* one iteration of _crawl_site whose fetch fails: except Exception, continue
CrawlVisitFail ==
    /\ s_pc = "crawl"
    /\ CrawlCond(CRAWL_MAX_PAGES)
    /\ Head(s_to_visit) \notin s_visited
    /\ s_visited' = s_visited \cup {Head(s_to_visit)}
    /\ s_gets' = Append(s_gets, Head(s_to_visit))
    /\ s_to_visit' = Tail(s_to_visit)
    /\ UNCHANGED <<s_pc, s_max, s_sites, s_results, s_scans, s_found>>
    /\ UNCHANGED <<crawlVars, normVars, annuaireVars, filterVars,
                   extractVars, pipeVars>>

\* _crawl_site returns annonce_pages and analyze_site ends
CrawlReturn ==
    /\ s_pc = "crawl"
    /\ ~CrawlCond(CRAWL_MAX_PAGES)
    /\ \E listed \in Orders(s_found), sample \in Samples :
          /\ s_results' = Append(s_results,
                 Result(SiteNow.base_url, listed, sample))
          /\ s_gets' = IF listed = << >> THEN s_gets
                       ELSE Append(s_gets, listed[1])
    /\ s_pc' = "batch"
    /\ UNCHANGED <<s_max, s_sites, s_scans, s_visited, s_to_visit, s_found>>
    /\ UNCHANGED <<crawlVars, normVars, annuaireVars, filterVars,
                   extractVars, pipeVars>>

\* analyze_multiple_sites returns results
BatchReturn ==
    /\ s_pc = "batch"
    /\ Len(s_results) = Len(s_sites)
    /\ s_pc' = "done"
    /\ UNCHANGED <<s_max, s_sites, s_results, s_gets, s_scans, s_visited,
                   s_to_visit, s_found>>
    /\ UNCHANGED <<crawlVars, normVars, annuaireVars, filterVars,
                   extractVars, pipeVars>>

\* one site, any home page
InitSite ==
    /\ Constructed(SeedPlain) /\ NormIdle /\ AnnuaireIdle /\ FilterIdle
    /\ ExtractIdle /\ PipeIdle
    /\ \E max_pages_per_site \in 1..MaxPerSite :
         \/ SiteAnalyzerBuilt(<<Site("s", "RequestException", << >>)>>,
                              max_pages_per_site)
         \/ \E anchors \in SeqsUpTo(Anchors, MaxAnchors) :
               SiteAnalyzerBuilt(<<Site("s", "ok", anchors)>>,
                                 max_pages_per_site)

NextSite ==
    \/ AnalyzeSiteDown
    \/ AnalyzeSiteRaise
    \/ AnalyzeSiteLinks
    \/ AnalyzeSiteCrawl
    \/ CrawlVisitOk
    \/ CrawlVisitFail
    \/ CrawlReturn
    \/ BatchReturn

SpecSite == InitSite /\ [][NextSite]_vars


\* SiteAnalyzer(): max_pages_per_site: int = 50
DEFAULT_MAX_PAGES_PER_SITE == 50

\* sites whose home page settles the analysis: a navigation link, links in
\* the content only, both, a site that does not answer, a navigation link
\* whose href urljoin rejects
BatchSites == {
    Site("n", "ok", <<Anchor(TRUE, TEXT_VENTES, HREF_VENTES)>>),
    Site("c", "ok", <<Anchor(FALSE, TEXT_OFFRES, HREF_OFFRES),
                      Anchor(FALSE, TEXT_VOIR, HREF_CESSIONS)>>),
    Site("b", "ok", <<Anchor(TRUE, TEXT_VENTES, HREF_VENTES),
                      Anchor(FALSE, TEXT_OFFRES, HREF_OFFRES)>>),
    Site("d", "RequestException", << >>),
    Site("v", "ok", <<Anchor(TRUE, TEXT_ANNONCES, HREF_BRACKET)>>)}

\* analyze_multiple_sites(sites) of a SiteAnalyzer()
InitBatch ==
    /\ Constructed(SeedPlain) /\ NormIdle /\ AnnuaireIdle /\ FilterIdle
    /\ ExtractIdle /\ PipeIdle
    /\ \E sites \in SeqsUpTo(BatchSites, MaxSites) :
          SiteAnalyzerBuilt(sites, DEFAULT_MAX_PAGES_PER_SITE)

NextBatch ==
    \/ AnalyzeSiteDown
    \/ AnalyzeSiteRaise
    \/ AnalyzeSiteLinks
    \/ BatchReturn

SpecBatch == InitBatch /\ [][NextBatch]_vars

\* C21: analyze_multiple_sites processes every site of its list in order
\* whatever fails: no exception leaves it, and when it returns there is one
\* result per site, in the order of the list, the result of a site whose
\* fetch failed holding an error and no page.
C21_BatchNeverAborts ==
    /\ s_pc # "raised"
    /\ s_pc = "done" =>
          /\ Len(s_results) = Len(s_sites)
          /\ \A i \in DOMAIN s_sites :
                /\ s_results[i].base_url = s_sites[i].base_url
                /\ s_sites[i].status = "RequestException" =>
                      /\ s_results[i].error # NoneValue
                      /\ s_results[i].pages_annonces = << >>

\* C22: analyze_site short-circuits its three strategies.  When the
\* navigation scan finds a link, pages_annonces is exactly its set, and
\* neither the all-anchors scan nor the crawl ran; the all-anchors result is
\* used only when the navigation scan is empty; the crawl and its fetches
\* happen only when both scans are empty.
C22_StrategiesShortCircuit ==
    /\ s_pc = "crawl" =>
          /\ find_annonce_links_in_nav(SiteNow.anchors, SiteNow.base_url) = {}
          /\ find_annonce_links_in_content(
                 SiteNow.anchors, SiteNow.base_url) = {}
    /\ s_pc \in {"batch", "done"} /\ s_results # << >> =>
          LET site    == s_sites[Len(s_results)]
              r       == s_results[Len(s_results)]
              nav     == find_annonce_links_in_nav(site.anchors, site.base_url)
              content == find_annonce_links_in_content(
                             site.anchors, site.base_url)
          IN  r.accessible =>
                /\ nav # {} =>
                      /\ Range(r.pages_annonces) = nav
                      /\ s_scans = <<"nav">>
                      /\ s_gets = <<site.base_url, r.pages_annonces[1]>>
                /\ nav = {} /\ content # {} =>
                      /\ Range(r.pages_annonces) = content
                      /\ s_scans = <<"nav", "content">>
                      /\ s_gets = <<site.base_url, r.pages_annonces[1]>>
                /\ nav = {} /\ content = {} =>
                      /\ s_scans = <<"nav", "content", "crawl">>
                      /\ Range(r.pages_annonces) = s_found

\* a site whose two scans differ was analysed from its navigation alone
C22_Witness ==
    /\ s_pc = "done"
    /\ s_scans = <<"nav">>
    /\ s_results[1].pages_annonces # << >>
    /\ find_annonce_links_in_content(s_sites[1].anchors, s_sites[1].base_url)
         # Range(s_results[1].pages_annonces)

\* C23: the descriptor of a page showing several patterns follows the
\* priority table > list > card, in its item_tag and in the items the
\* structure-guided extractor takes from it: a table wins over a list and
\* over cards, a list wins over cards.
C23_PatternPriority ==
    \A i \in DOMAIN s_results :
        s_results[i].structure_detected # << >> =>
            LET structure == s_results[i].structure_detected[1]
            IN  /\ structure.has_table =>
                      /\ structure.item_tag = TAG_TR
                      /\ StructureKind(structure) = "has_table"
                /\ ~structure.has_table /\ structure.has_list =>
                      /\ structure.item_tag = TAG_LI
                      /\ StructureKind(structure) = "item_tag"
                /\ /\ ~structure.has_table
                   /\ ~structure.has_list
                   /\ structure.has_cards =>
                      /\ structure.item_tag = TAG_DIV
                      /\ StructureKind(structure) = "container_class"

\* C26: for SiteAnalyzer(max_pages_per_site=n) the crawl of analyze_site
\* never visits more than n URLs, and analyze_site never fetches the same
\* URL twice.
C26_CrawlWithinSiteCap ==
    /\ Cardinality(s_visited) <= s_max
    /\ \A i, j \in DOMAIN s_gets : s_gets[i] = s_gets[j] => i = j

(***************************************************************************)
(* AJScraperPipeline and main (src/aj_scraper/main.py).  The two files are *)
(* administrateurs_idf.json, read by load_results as a list that is empty  *)
(* when the file is missing, and sites_analysis.json: << >> when missing,  *)
(* <<list>> otherwise.                                                     *)
(***************************************************************************)
MaxAnalysed == 2     \* results in sites_analysis.json

SITE_S == Http \o <<"s">>
SITE_T == Http \o <<"t">>
PAGE_S == SITE_S \o HREF_VENTES
PAGE_T == SITE_T \o HREF_OFFRES

Admin(site_web) == [site_web |-> site_web]

AdminLists == {
    << >>,
    <<Admin(NoneValue)>>,
    <<Admin(SITE_S)>>,
    <<Admin(SITE_S), Admin(NoneValue), Admin(SITE_T)>>}

\* what analyze_site can return for a site: listing pages with a descriptor,
\* listing pages without, nothing
ResultsOf(site_url) == {
    Result(site_url, <<site_url \o HREF_VENTES>>,
           [ok |-> TRUE, patterns |-> {"table"}]),
    Result(site_url, <<site_url \o HREF_OFFRES>>,
           [ok |-> FALSE, patterns |-> {}]),
    [NewResult(site_url) EXCEPT !.error = ERROR_TEXT]}

\* every list of results analyze_multiple_sites can return for these sites
RECURSIVE Analyses(_)
Analyses(sites) ==
    IF sites = << >> THEN {<< >>}
    ELSE {<<r>> \o rest : r \in ResultsOf(Head(sites)),
                          rest \in Analyses(Tail(sites))}

SavedResults ==
    {Result(SITE_S, <<PAGE_S>>, [ok |-> TRUE, patterns |-> {"table"}]),
     Result(SITE_T, <<PAGE_T>>, [ok |-> FALSE, patterns |-> {}]),
     [NewResult(SITE_S) EXCEPT !.error = ERROR_TEXT]}

SavedAnalyses ==
    {<< >>} \cup {<<results>> : results \in SeqsUpTo(SavedResults, MaxAnalysed)}

\* what extract_annonces_from_page can return for a page
PageAnnonces == {<< >>, <<A_WEB>>, <<A_RESTAURANT_MARSEILLE>>}

\* phase2_analyze_sites: a['site_web'] for a in administrateurs if site_web
RECURSIVE SitesOf(_)
SitesOf(admins) ==
    IF admins = << >> THEN << >>
    ELSE IF Truthy(Head(admins).site_web)
         THEN <<Head(admins).site_web>> \o SitesOf(Tail(admins))
         ELSE SitesOf(Tail(admins))

\* phase3_extract_and_filter_annonces: all_annonce_pages
RECURSIVE AllAnnoncePages(_)
AllAnnoncePages(analysis) ==
    IF analysis = << >> THEN << >>
    ELSE Head(analysis).pages_annonces \o AllAnnoncePages(Tail(analysis))

\* extract_annonces_from_multiple_pages:
\* structures.get(page_url) if structures else None, structures being << >>
\* for None and a list of [url, structure] otherwise
StructureFor(structures, page_url) ==
    LET hit == {i \in DOMAIN structures : structures[i].url = page_url}
    IN  IF hit = {} THEN << >> ELSE structures[SetMax(hit)].structure

\* extract_annonces_from_page: if structure
ExtractionMode(structure) ==
    IF structure # << >> THEN "structure" ELSE "heuristics"

\* the calls extract_annonces_from_multiple_pages makes, in order
Extractions(listing, structures) ==
    [i \in DOMAIN listing |->
        [url       |-> listing[i],
         structure |-> StructureFor(structures, listing[i]),
         mode      |-> ExtractionMode(StructureFor(structures, listing[i]))]]

\* all_annonces.extend(annonces) for every page
RECURSIVE Extend(_)
Extend(lists) ==
    IF lists = << >> THEN << >> ELSE Head(lists) \o Extend(Tail(lists))

\* the step after phase 1 and after phase 2: main stops there under
\* --phase 1 and --phase 2
AfterPhase1 == IF p_phase = 1 THEN "end" ELSE "phase2"
AfterPhase2 == IF p_phase = 2 THEN "end" ELSE "phase3"

\* run calls the method of a phase only if its flag is unset; main under
\* --phase calls it whatever the flag
Phase1Called == p_phase # 0 \/ ~p_skip1
Phase2Called == p_phase # 0 \/ ~p_skip2

MainCalled(files) ==
    /\ p_pc = "main"
    /\ p_phase = 0
    /\ p_skip1 = FALSE
    /\ p_skip2 = FALSE
    /\ p_files = files
    /\ p_administrateurs = << >>
    /\ p_sites_analysis = << >>
    /\ p_extractions = << >>
    /\ p_annonces = << >>
    /\ p_filtered = << >>

\* main: the arguments are parsed and the pipeline is built
Main ==
    /\ p_pc = "main"
    /\ \E phase \in 0..3, skip_phase1 \in BOOLEAN, skip_phase2 \in BOOLEAN :
          /\ p_phase' = phase
          /\ p_skip1' = (skip_phase1 \/ phase \in {2, 3})
          /\ p_skip2' = (skip_phase2 \/ phase = 3)
    /\ p_pc' = "phase1"
    /\ UNCHANGED <<p_files, p_administrateurs, p_sites_analysis,
                   p_extractions, p_annonces, p_filtered>>
    /\ UNCHANGED <<crawlVars, normVars, annuaireVars, filterVars,
                   extractVars, siteVars>>

\* run: if not self.skip_phase1 is false
Phase1Skipped ==
    /\ p_pc = "phase1"
    /\ ~Phase1Called
    /\ p_pc' = "phase2"
    /\ UNCHANGED <<p_phase, p_skip1, p_skip2, p_files, p_administrateurs,
                   p_sites_analysis, p_extractions, p_annonces, p_filtered>>
    /\ UNCHANGED <<crawlVars, normVars, annuaireVars, filterVars,
                   extractVars, siteVars>>

\* phase1_extract_administrateurs with skip_phase1: load_results
Phase1Load ==
    /\ p_pc = "phase1"
    /\ Phase1Called
    /\ p_skip1
    /\ p_administrateurs' = p_files.administrateurs
    /\ p_pc' = IF p_files.administrateurs = << >> THEN "exit"
               ELSE AfterPhase1
    /\ UNCHANGED <<p_phase, p_skip1, p_skip2, p_files, p_sites_analysis,
                   p_extractions, p_annonces, p_filtered>>
    /\ UNCHANGED <<crawlVars, normVars, annuaireVars, filterVars,
                   extractVars, siteVars>>

\* phase1_extract_administrateurs: scrape_all_pages, save_results
Phase1Scrape ==
    /\ p_pc = "phase1"
    /\ Phase1Called
    /\ ~p_skip1
    /\ \E scraped \in AdminLists :
          /\ p_administrateurs' = scraped
          /\ p_files' = IF scraped = << >> THEN p_files
                        ELSE [p_files EXCEPT !.administrateurs = scraped]
          /\ p_pc' = IF scraped = << >> THEN "exit" ELSE AfterPhase1
    /\ UNCHANGED <<p_phase, p_skip1, p_skip2, p_sites_analysis,
                   p_extractions, p_annonces, p_filtered>>
    /\ UNCHANGED <<crawlVars, normVars, annuaireVars, filterVars,
                   extractVars, siteVars>>

\* run: if not self.skip_phase2 is false
Phase2Skipped ==
    /\ p_pc = "phase2"
    /\ ~Phase2Called
    /\ p_pc' = "phase3"
    /\ UNCHANGED <<p_phase, p_skip1, p_skip2, p_files, p_administrateurs,
                   p_sites_analysis, p_extractions, p_annonces, p_filtered>>
    /\ UNCHANGED <<crawlVars, normVars, annuaireVars, filterVars,
                   extractVars, siteVars>>

\* phase2_analyze_sites: if not sites
Phase2NoSites ==
    /\ p_pc = "phase2"
    /\ Phase2Called
    /\ SitesOf(p_administrateurs) = << >>
    /\ p_pc' = "exit"
    /\ UNCHANGED <<p_phase, p_skip1, p_skip2, p_files, p_administrateurs,
                   p_sites_analysis, p_extractions, p_annonces, p_filtered>>
    /\ UNCHANGED <<crawlVars, normVars, annuaireVars, filterVars,
                   extractVars, siteVars>>

\* phase2_analyze_sites with skip_phase2: sites_analysis.json is read
Phase2Load ==
    /\ p_pc = "phase2"
    /\ Phase2Called
    /\ SitesOf(p_administrateurs) # << >>
    /\ p_skip2
    /\ IF p_files.sites_analysis = << >>
       THEN p_pc' = "exit" /\ UNCHANGED p_sites_analysis
       ELSE /\ p_sites_analysis' = p_files.sites_analysis[1]
            /\ p_pc' = AfterPhase2
    /\ UNCHANGED <<p_phase, p_skip1, p_skip2, p_files, p_administrateurs,
                   p_extractions, p_annonces, p_filtered>>
    /\ UNCHANGED <<crawlVars, normVars, annuaireVars, filterVars,
                   extractVars, siteVars>>

\* phase2_analyze_sites: analyze_multiple_sites, save_analysis
Phase2Analyze ==
    /\ p_pc = "phase2"
    /\ Phase2Called
    /\ SitesOf(p_administrateurs) # << >>
    /\ ~p_skip2
    /\ \E results \in Analyses(SitesOf(p_administrateurs)) :
          /\ p_sites_analysis' = results
          /\ p_files' = [p_files EXCEPT !.sites_analysis = <<results>>]
    /\ p_pc' = AfterPhase2
    /\ UNCHANGED <<p_phase, p_skip1, p_skip2, p_administrateurs,
                   p_extractions, p_annonces, p_filtered>>
    /\ UNCHANGED <<crawlVars, normVars, annuaireVars, filterVars,
                   extractVars, siteVars>>

\* phase2_analyze_sites: analyze_multiple_sites raises; run turns any
\* exception into sys.exit(1), under --phase it ends main
Phase2Raise ==
    /\ p_pc = "phase2"
    /\ Phase2Called
    /\ SitesOf(p_administrateurs) # << >>
    /\ ~p_skip2
    /\ p_pc' = "exit"
    /\ UNCHANGED <<p_phase, p_skip1, p_skip2, p_files, p_administrateurs,
                   p_sites_analysis, p_extractions, p_annonces, p_filtered>>
    /\ UNCHANGED <<crawlVars, normVars, annuaireVars, filterVars,
                   extractVars, siteVars>>

\* phase3_extract_and_filter_annonces
Phase3 ==
    /\ p_pc = "phase3"
    /\ LET listing == AllAnnoncePages(p_sites_analysis)
       IN  IF listing = << >>
           THEN UNCHANGED <<p_extractions, p_annonces, p_filtered>>
           ELSE \E found \in [DOMAIN listing -> PageAnnonces] :
                   /\ p_extractions' = Extractions(listing, << >>)
                   /\ p_annonces' = Extend(found)
                   /\ p_filtered' =
                        IF Extend(found) = << >> THEN << >>
                        ELSE apply_all_filters(
                                 Extend(found),
                                 Args(TRUE, TRUE, NoList, NoList,
                                      NoBound, NoBound),
                                 DepartmentsOr(NoList))
    /\ p_pc' = "end"
    /\ UNCHANGED <<p_phase, p_skip1, p_skip2, p_files, p_administrateurs,
                   p_sites_analysis>>
    /\ UNCHANGED <<crawlVars, normVars, annuaireVars, filterVars,
                   extractVars, siteVars>>

InitPipeline ==
    /\ Constructed(SeedPlain) /\ NormIdle /\ AnnuaireIdle /\ FilterIdle
    /\ ExtractIdle /\ SiteIdle
    /\ \E admins \in AdminLists, analysis \in SavedAnalyses :
          MainCalled([administrateurs |-> admins,
                      sites_analysis  |-> analysis])

NextPipeline ==
    \/ Main
    \/ Phase1Skipped
    \/ Phase1Load
    \/ Phase1Scrape
    \/ Phase2Skipped
    \/ Phase2NoSites
    \/ Phase2Load
    \/ Phase2Analyze
    \/ Phase2Raise
    \/ Phase3

SpecPipeline == InitPipeline /\ [][NextPipeline]_vars

\* the files a run started with are present
FilesPresent ==
    p_files.administrateurs # << >> /\ p_files.sites_analysis # << >>

\* C25: run() with skip_phase1 (resp. skip_phase2) uses the persisted data
\* of that phase: past phase 1 the saved administrators are loaded, past
\* phase 2 the saved analysis is loaded, and with both flags set and both
\* files present, phase 3 extracts the listing pages of the saved analysis.
C25_SkippedPhasesLoaded ==
    p_phase = 0 /\ p_pc \in {"phase2", "phase3", "end"} =>
        /\ p_skip1 /\ p_files.administrateurs # << >> =>
              p_administrateurs = p_files.administrateurs
        /\ p_skip2 /\ p_pc # "phase2" /\ p_files.sites_analysis # << >> =>
              p_sites_analysis = p_files.sites_analysis[1]
        /\ p_skip1 /\ p_skip2 /\ p_pc = "end" /\ FilesPresent =>
              [i \in DOMAIN p_extractions |-> p_extractions[i].url]
                  = AllAnnoncePages(p_files.sites_analysis[1])

\* C27: in phase 3 every listing page of a site whose analysis holds a
\* descriptor is extracted in structure-guided mode with that descriptor,
\* and the heuristic mode is used only for the pages of the sites without.
C27_DescriptorGuidesExtraction ==
    p_pc = "end" /\ p_extractions # << >> =>
        \A k \in DOMAIN p_sites_analysis :
            LET site == p_sites_analysis[k]
            IN  \A i \in DOMAIN p_extractions :
                    p_extractions[i].url \in Range(site.pages_annonces) =>
                        IF site.structure_detected # << >>
                        THEN /\ p_extractions[i].mode = "structure"
                             /\ p_extractions[i].structure
                                    = site.structure_detected
                        ELSE p_extractions[i].mode = "heuristics"

=============================================================================
